---- MODULE Spec2Model ----
(***************************************************************************)
(* State-machine model of the llm-rag request pipeline:                    *)
(*   - RagService (src/src/rag/rag.service.ts): lazy single-flight         *)
(*     initialization of the LLM, the embedder and the vector store;       *)
(*   - modelLoader.js: the module-level llama / model / context handles;   *)
(*   - ChatController.streamChat, RagController.warmup and                 *)
(*     HealthController.checkHealth: the HTTP entry points;                *)
(*   - ChatHandler.generateResponse and the CLI loop of index.js;          *)
(*   - ChatLlamaCpp._generate / _streamResponseChunks: the one-shot        *)
(*     generation and the queue-based stream adapter.                      *)
(* One action is one synchronous run of JavaScript between two awaits.     *)
(***************************************************************************)
EXTENDS Integers, Sequences, FiniteSets, TLC

\* ---------------------------------------------------------------- bounds
\* requests of the specification Spec
MaxRequests == 2
\* requests of the specifications SpecServer and SpecReady
MaxClients == 1
\* fragments one generation emits at most
MaxTokens == 2
\* chunks of the knowledge base at most
MaxChunks == 2
\* entries of the knowledge-base directory at most (specification SpecLoader)
MaxFiles == 2
\* messages handed to _formatMessages in one call
MaxMessages == 3

\* ------------------------------------------------------- program constants
\* process.env.TOP_K || '3'
DefaultTopK == 3

\* ------------------------------------------------------------- input sets
\* body.query of a chat request: missing, not a string, or a string
\* (a sequence of characters)
Undefined == [type |-> "undefined", val |-> <<>>]
NumberQuery == [type |-> "number", val |-> <<>>]
Str(s) == [type |-> "string", val |-> s]
Whitespace == {" ", "\t", "\n"}
QueryStrings ==
  { <<>>, <<" ">>, <<"\t", " ">>, <<" ", "q">> }
Queries == {Undefined, NumberQuery} \cup { Str(s) : s \in QueryStrings }
\* one rejected and one accepted query
SomeQueries == { Str(<<"\t", " ">>), Str(<<" ", "q">>) }
\* body.topK: 0 stands for a missing / undefined topK as well as for 0,
\* both falsy in `topK || getTopK()`
TopKInputs == {-1, 0, 1}
\* the i-th text fragment the (deterministic) generator emits; a text is a
\* sequence of character codes
Fragment(i) == IF i % 2 = 1 THEN <<i>> ELSE <<i, i>>

\* -------------------------------------------------------------- variables
VARIABLES
  llm,                    \* RagService.llm: 0 (null) or the attempt that built it
  vectorStore,            \* RagService.vectorStore
  chatHandler,            \* RagService.chatHandler
  isInitialized,          \* RagService.isInitialized
  initializationPromise,  \* RagService.initializationPromise: 0 (null) or attempt id
  cleanupModel,           \* RagService.cleanupModel is set
  llama, model, context,  \* modelLoader.js module state (TRUE = loaded)
  promise,                \* state of the promise returned by each _doInitialize call
  task,                   \* position and locals of each _doInitialize call
  indexFile,              \* faiss.index on disk: -1 absent, else number of chunks
  kbChunks,               \* chunks the knowledge-base directory splits into
  modelLoads,             \* number of llama.loadModel() calls so far
  req,                    \* the requests
  dir,                    \* the knowledge-base directory on disk
  loading,                \* the call of loadDocumentsFromDirectory
  pipeline,               \* the XenovaEmbeddings instances whose pipeline is loaded
  formatting              \* the call of ChatLlamaCpp._formatMessages

svcVars == <<llm, vectorStore, chatHandler, isInitialized, initializationPromise,
             cleanupModel>>
loaderVars == <<llama, model, context, modelLoads, pipeline>>
envVars == <<indexFile, kbChunks, dir, loading, formatting>>
vars == <<llm, vectorStore, chatHandler, isInitialized, initializationPromise,
          cleanupModel, llama, model, context, promise, task, indexFile,
          kbChunks, modelLoads, req, dir, loading, pipeline, formatting>>

Requests == DOMAIN req
\* every _doInitialize invocation is started by one request
Attempts == DOMAIN promise

NullStore == [kind |-> "null", embeddings |-> 0, n |-> 0]
NullHandler == [vectorStore |-> NullStore, llm |-> 0]
NoIndex == -1

Pending == [state |-> "pending", error |-> ""]
Resolved == [state |-> "resolved", error |-> ""]
Rejected(e) == [state |-> "rejected", error |-> e]
NoPromise == [state |-> "none", error |-> ""]

NoTask == [pc |-> "none", documents |-> 0]

NoRequest ==
  [ kind |-> "none", query |-> Undefined, topK |-> 0, pc |-> "idle",
    att |-> 0, events |-> <<>>, completes |-> 0, handler |-> NullHandler,
    k |-> 0, docs |-> <<>>, searches |-> 0, generations |-> 0,
    chunkQueue |-> <<>>, isComplete |-> FALSE, streamingError |-> "",
    producer |-> "idle", produced |-> <<>>, yielded |-> <<>>,
    response |-> <<>>, result |-> "", message |-> "",
    report |-> [initialized |-> FALSE, ready |-> FALSE],
    closed |-> FALSE,
    messages |-> [system |-> <<>>, human |-> <<>>],
    loads |-> FALSE ]

\* ------------------------------------------------------------------ Init
\* the state after construction of RagService, with n requests to come
\* an empty directory, and no call of the loader
NoDirectory == [readable |-> TRUE, files |-> <<>>]
NotLoading == [pc |-> "none", i |-> 0, documents |-> <<>>, warnings |-> 0]

FreshService(n) ==
  /\ llm = 0
  /\ vectorStore = NullStore
  /\ chatHandler = NullHandler
  /\ isInitialized = FALSE
  /\ initializationPromise = 0
  /\ cleanupModel = FALSE
  /\ llama = FALSE /\ model = FALSE /\ context = FALSE
  /\ modelLoads = 0
  /\ pipeline = {}
  /\ promise = [a \in 1..n |-> NoPromise]
  /\ task = [a \in 1..n |-> NoTask]
  /\ kbChunks \in 0..MaxChunks
  \* a persisted index, when there is one, was saved from a non-empty corpus
  /\ indexFile \in {NoIndex} \cup (IF kbChunks > 0 THEN {kbChunks} ELSE {})
  /\ req = [r \in 1..n |-> NoRequest]

NotFormatting == [pc |-> "none", messages |-> <<>>, i |-> 0, prompt |-> <<>>]

InitServer(n) ==
  /\ FreshService(n)
  /\ dir = NoDirectory
  /\ loading = NotLoading
  /\ formatting = NotFormatting

Init == InitServer(MaxRequests)

\* ------------------------------------------------ RagService._doInitialize
\* mutant: the catch block leaves the rejected promise in place
PromiseKeptAfterFailure == initializationPromise

\* catch (error) { this.initializationPromise = null; throw error; }
PromiseAfterFailure == 0

\* mutant: the catch block starts the next attempt by itself
FailAndRetry(a, e) ==
  LET free == { b \in Attempts : promise[b].state = "none" }
      next == CHOOSE b \in free : \A c \in free : b <= c
  IN  IF free = {}
        THEN /\ initializationPromise' = PromiseAfterFailure
             /\ promise' = [promise EXCEPT ![a] = Rejected(e)]
             /\ task' = [task EXCEPT ![a].pc = "thrown"]
        ELSE /\ initializationPromise' = next
             /\ promise' = [promise EXCEPT ![a] = Rejected(e),
                                           ![next] = Pending]
             /\ task' = [task EXCEPT ![a].pc = "thrown",
                                     ![next].pc = "import"]

Fail(a, e) ==
  /\ initializationPromise' = PromiseAfterFailure
  /\ promise' = [promise EXCEPT ![a] = Rejected(e)]
  /\ task' = [task EXCEPT ![a].pc = "thrown"]

\* mutant: the chat handler is created before this.vectorStore is assigned
FinishHandlerFirst(a, vs) ==
  /\ vectorStore' = vs
  /\ chatHandler' = [vectorStore |-> vectorStore, llm |-> llm]
  /\ isInitialized' = TRUE
  /\ promise' = [promise EXCEPT ![a] = Resolved]
  /\ task' = [task EXCEPT ![a].pc = "returned"]
  /\ UNCHANGED <<llm, initializationPromise>>

\* mutant: this.isInitialized = true is left out
FinishWithoutReady(a, vs) ==
  /\ vectorStore' = vs
  /\ chatHandler' = [vectorStore |-> vs, llm |-> llm]
  /\ isInitialized' = isInitialized
  /\ promise' = [promise EXCEPT ![a] = Resolved]
  /\ task' = [task EXCEPT ![a].pc = "returned"]
  /\ UNCHANGED <<llm, initializationPromise>>

\* mutant: the promise is cleared when the attempt succeeds as well
FinishClearsPromise(a, vs) ==
  /\ vectorStore' = vs
  /\ chatHandler' = [vectorStore |-> vs, llm |-> llm]
  /\ isInitialized' = TRUE
  /\ initializationPromise' = 0
  /\ promise' = [promise EXCEPT ![a] = Resolved]
  /\ task' = [task EXCEPT ![a].pc = "returned"]
  /\ UNCHANGED llm

\* Step 4: new ChatHandler(this.vectorStore, this.llm); isInitialized = true
Finish(a, vs) ==
  /\ vectorStore' = vs
  /\ chatHandler' = [vectorStore |-> vs, llm |-> llm]
  /\ isInitialized' = TRUE
  /\ promise' = [promise EXCEPT ![a] = Resolved]
  /\ task' = [task EXCEPT ![a].pc = "returned"]
  /\ UNCHANGED <<llm, initializationPromise>>

\* mutant: loadModel() loads the runtime whether or not it is loaded
LoadModelFromStart == "getLlama"

\* where loadModel() suspends next: each handle is loaded only when null
LoadModelNext ==
  IF ~llama THEN "getLlama"
  ELSE IF ~model THEN "loadModel"
  ELSE IF ~context THEN "createContext"
  ELSE "loaded"

\* the dynamic imports resolve; cleanupModel is stored; loadModel() is called
ImportsDone(a) ==
  /\ task[a].pc = "import"
  /\ cleanupModel' = TRUE
  /\ task' = [task EXCEPT ![a].pc = LoadModelNext]
  /\ modelLoads' = IF LoadModelNext = "loadModel" THEN modelLoads + 1 ELSE modelLoads
  /\ UNCHANGED <<llm, vectorStore, chatHandler, isInitialized,
                 initializationPromise, llama, model, context, pipeline,
                 promise, envVars, req>>

\* llama = await getLlama()
GetLlamaDone(a, ok) ==
  /\ task[a].pc = "getLlama"
  /\ IF ok
       THEN /\ llama' = TRUE
            /\ LET next == IF ~model THEN "loadModel"
                           ELSE IF ~context THEN "createContext" ELSE "loaded"
               IN /\ task' = [task EXCEPT ![a].pc = next]
                  /\ modelLoads' = IF next = "loadModel" THEN modelLoads + 1
                                   ELSE modelLoads
            /\ UNCHANGED <<initializationPromise, promise>>
       ELSE /\ Fail(a, "getLlama")
            /\ UNCHANGED <<llama, modelLoads>>
  /\ UNCHANGED <<llm, vectorStore, chatHandler, isInitialized, cleanupModel,
                 model, context, pipeline, envVars, req>>

\* model = await llama.loadModel({modelPath})
LoadModelDone(a, ok) ==
  /\ task[a].pc = "loadModel"
  /\ IF ok
       THEN /\ model' = TRUE
            /\ task' = [task EXCEPT ![a].pc =
                          IF ~context THEN "createContext" ELSE "loaded"]
            /\ UNCHANGED <<initializationPromise, promise>>
       ELSE /\ Fail(a, "loadModel")
            /\ UNCHANGED model
  /\ UNCHANGED <<llm, vectorStore, chatHandler, isInitialized, cleanupModel,
                 llama, context, modelLoads, pipeline, envVars, req>>

\* context = await model.createContext({contextSize: 4096})
CreateContextDone(a, ok) ==
  /\ task[a].pc = "createContext"
  /\ IF ok
       THEN /\ context' = TRUE
            /\ task' = [task EXCEPT ![a].pc = "loaded"]
            /\ UNCHANGED <<initializationPromise, promise>>
       ELSE /\ Fail(a, "createContext")
            /\ UNCHANGED context
  /\ UNCHANGED <<llm, vectorStore, chatHandler, isInitialized, cleanupModel,
                 llama, model, modelLoads, pipeline, envVars, req>>

\* loadModel() has returned: new ChatLlamaCpp(...) throws unless getModel()
\* and getContext() are both set; then new XenovaEmbeddings(...) and the
\* fs.existsSync(indexFile) test choose the branch of step 3
Construct(a) ==
  /\ task[a].pc = "loaded"
  /\ IF model /\ context
       THEN /\ llm' = a
            /\ task' = [task EXCEPT ![a].pc =
                          IF indexFile # NoIndex THEN "loadIndex"
                          ELSE "loadDocuments"]
            /\ UNCHANGED <<initializationPromise, promise>>
       ELSE /\ Fail(a, "Model and context must be loaded before creating ChatLlamaCpp instance")
            /\ UNCHANGED llm
  /\ UNCHANGED <<vectorStore, chatHandler, isInitialized, cleanupModel,
                 loaderVars, envVars, req>>

\* mutant: a failed load of the existing index falls back to a new empty
\* store, as the catch block of initializeVectorStore does
LoadIndexFallsBack(a, ok) ==
  /\ task[a].pc = "loadIndex"
  /\ Finish(a, IF ok /\ indexFile # NoIndex
                 THEN [kind |-> "loaded", embeddings |-> a, n |-> indexFile]
                 ELSE [kind |-> "empty", embeddings |-> a, n |-> 0])
  /\ UNCHANGED <<cleanupModel, loaderVars, envVars, req>>

\* this.vectorStore = await FaissStore.load(resolvedIndexPath, embeddings)
LoadIndexDone(a, ok) ==
  /\ task[a].pc = "loadIndex"
  /\ IF ok /\ indexFile # NoIndex
       THEN Finish(a, [kind |-> "loaded", embeddings |-> a, n |-> indexFile])
       ELSE /\ Fail(a, "FaissStore.load")
            /\ UNCHANGED <<llm, vectorStore, chatHandler, isInitialized>>
  /\ UNCHANGED <<cleanupModel, loaderVars, envVars, req>>

\* documents = await loadAndProcessDocuments(knowledgeBaseDir, ...)
LoadDocumentsDone(a, ok) ==
  /\ task[a].pc = "loadDocuments"
  /\ IF ok
       THEN /\ task' = [task EXCEPT ![a] =
                 [pc |-> IF kbChunks > 0 THEN "fromDocuments"
                         ELSE "initializeVectorStore",
                  documents |-> kbChunks]]
            /\ UNCHANGED <<initializationPromise, promise>>
       ELSE Fail(a, "loadAndProcessDocuments")
  /\ UNCHANGED <<llm, vectorStore, chatHandler, isInitialized, cleanupModel,
                 loaderVars, envVars, req>>

\* XenovaEmbeddings._initializePipeline of the instance created by attempt
\* e: the pipeline is loaded when it is null
InitializePipeline(e) == pipeline \cup {e}

\* if (!this.pipeline): a call of _initializePipeline on instance e that
\* finds no pipeline starts a load and suspends on it
LoadsPipeline(e) == e \notin pipeline

\* the pipelines loaded after vectorStore.similaritySearch embedded the
\* query with instance e: a search that returns has loaded the pipeline, a
\* search that throws failed in the load or after it
EmbedQuery(e, ok) ==
  IF ok THEN {InitializePipeline(e)} ELSE {pipeline, InitializePipeline(e)}

\* mutant: the built store is not saved before the attempt completes
FromDocumentsSkipsSave(a, ok) ==
  /\ task[a].pc = "fromDocuments"
  /\ IF ok
       THEN /\ Finish(a, [kind |-> "built", embeddings |-> a,
                          n |-> task[a].documents])
            /\ pipeline' = InitializePipeline(a)
       ELSE /\ Fail(a, "FaissStore.fromDocuments")
            /\ UNCHANGED <<llm, vectorStore, chatHandler, isInitialized,
                           pipeline>>
  /\ UNCHANGED <<cleanupModel, llama, model, context, modelLoads, envVars,
                 req>>

\* this.vectorStore = await FaissStore.fromDocuments(documents, embeddings):
\* the documents are embedded, which loads the pipeline of the embeddings;
\* when it rejects, the embeddings instance is dropped with the attempt
FromDocumentsDone(a, ok) ==
  /\ task[a].pc = "fromDocuments"
  /\ IF ok
       THEN /\ vectorStore' = [kind |-> "built", embeddings |-> a,
                               n |-> task[a].documents]
            /\ pipeline' = InitializePipeline(a)
            /\ task' = [task EXCEPT ![a].pc = "save"]
            /\ UNCHANGED <<initializationPromise, promise>>
       ELSE /\ Fail(a, "FaissStore.fromDocuments")
            /\ UNCHANGED <<vectorStore, pipeline>>
  /\ UNCHANGED <<llm, chatHandler, isInitialized, cleanupModel, llama, model,
                 context, modelLoads, envVars, req>>

\* await saveVectorStore(this.vectorStore, resolvedIndexPath); a failed save
\* may or may not have written faiss.index
SaveDone(a, ok, wrote) ==
  /\ task[a].pc = "save"
  /\ IF ok
       THEN /\ indexFile' = vectorStore.n
            /\ Finish(a, vectorStore)
       ELSE /\ indexFile' = IF wrote THEN vectorStore.n ELSE indexFile
            /\ Fail(a, "saveVectorStore")
            /\ UNCHANGED <<llm, vectorStore, chatHandler, isInitialized>>
  /\ UNCHANGED <<cleanupModel, loaderVars, kbChunks, dir, loading,
                 formatting, req>>

\* this.vectorStore = await initializeVectorStore(embeddings, path): the
\* directory exists, FaissStore.load is tried, and any load error falls back
\* to a new empty FaissStore
InitializeVectorStoreDone(a, loaded) ==
  /\ task[a].pc = "initializeVectorStore"
  /\ loaded => indexFile # NoIndex
  /\ Finish(a, IF loaded
                 THEN [kind |-> "loaded", embeddings |-> a, n |-> indexFile]
                 ELSE [kind |-> "empty", embeddings |-> a, n |-> 0])
  /\ UNCHANGED <<cleanupModel, loaderVars, envVars, req>>

\* ------------------------- documentLoader: loadDocumentsFromDirectory
\* extensions = ['.txt', '.md']
Extensions == {".txt", ".md"}

\* String.prototype.toLowerCase on the extensions that occur
ToLowerCase(ext) ==
  IF ext = ".TXT" THEN ".txt" ELSE IF ext = ".MD" THEN ".md" ELSE ext

\* an entry of the directory: its extension and whether readFile succeeds
FileKinds == [ext : {".txt", ".MD", ".pdf"}, readable : BOOLEAN]

RECURSIVE SeqsUpTo(_, _)
\* the sequences over S of length at most n
SeqsUpTo(S, n) ==
  IF n = 0 THEN {<<>>}
  ELSE LET shorter == SeqsUpTo(S, n - 1)
       IN shorter \cup { Append(q, x) : q \in shorter, x \in S }

\* the directories: readdir fails or returns the entries
Directories == [readable : BOOLEAN, files : SeqsUpTo(FileKinds, MaxFiles)]

\* mutant: the error of readFile is not caught inside the loop
ReadFileFatal(i) ==
  /\ loading.pc = "loop" /\ i = loading.i + 1 /\ i <= Len(dir.files)
  /\ loading' =
       IF ToLowerCase(dir.files[i].ext) \in Extensions
         THEN IF dir.files[i].readable
                THEN [loading EXCEPT !.i = i, !.documents = Append(@, i)]
                ELSE [loading EXCEPT !.pc = "thrown"]
         ELSE [loading EXCEPT !.i = i]
  /\ UNCHANGED <<svcVars, loaderVars, promise, task, indexFile, kbChunks,
                 dir, formatting, req>>

\* const files = await readdir(resolvedPath): an error is logged and rethrown
ReadDir ==
  /\ loading.pc = "none"
  /\ loading' = [loading EXCEPT !.pc = IF dir.readable THEN "loop" ELSE "thrown"]
  /\ UNCHANGED <<svcVars, loaderVars, promise, task, indexFile, kbChunks,
                 dir, formatting, req>>

\* one turn of for (const file of files): a file with a listed extension is
\* read and pushed as a Document (identified by its position in the listing);
\* a read error is warned about and the loop goes on
ReadFile(i) ==
  /\ loading.pc = "loop" /\ i = loading.i + 1 /\ i <= Len(dir.files)
  /\ loading' =
       IF ToLowerCase(dir.files[i].ext) \in Extensions
         THEN IF dir.files[i].readable
                THEN [loading EXCEPT !.i = i, !.documents = Append(@, i)]
                ELSE [loading EXCEPT !.i = i, !.warnings = @ + 1]
         ELSE [loading EXCEPT !.i = i]
  /\ UNCHANGED <<svcVars, loaderVars, promise, task, indexFile, kbChunks,
                 dir, formatting, req>>

\* the loop is over: return documents
ReturnDocuments ==
  /\ loading.pc = "loop" /\ loading.i = Len(dir.files)
  /\ loading' = [loading EXCEPT !.pc = "returned"]
  /\ UNCHANGED <<svcVars, loaderVars, promise, task, indexFile, kbChunks,
                 dir, formatting, req>>

\* --------------------------------------------------- modelLoader.cleanup
\* mutant: onModuleDestroy also resets the adapter and the ready flag
OnModuleDestroyResets ==
  /\ cleanupModel
  /\ llama \/ model \/ context
  /\ llama' = FALSE /\ model' = FALSE /\ context' = FALSE
  /\ llm' = 0 /\ isInitialized' = FALSE
  /\ UNCHANGED <<vectorStore, chatHandler, initializationPromise, cleanupModel,
                 modelLoads, pipeline, promise, task, envVars, req>>

\* RagService.onModuleDestroy: if (this.cleanupModel) this.cleanupModel()
OnModuleDestroy ==
  /\ cleanupModel
  /\ llama \/ model \/ context
  /\ llama' = FALSE /\ model' = FALSE /\ context' = FALSE
  /\ UNCHANGED <<svcVars, modelLoads, pipeline, promise, task, envVars, req>>

\* ------------------------------------------------- RagService.initialize
\* mutant: initialize() does not look at the attempt in progress
InitNeverInProgress == FALSE

\* if (this.initializationPromise) return this.initializationPromise
InitInProgress == initializationPromise # 0

\* the next _doInitialize invocation
NextAttempt ==
  CHOOSE a \in Attempts :
    /\ promise[a].state = "none"
    /\ \A b \in Attempts : b < a => promise[b].state # "none"

\* the promise a caller of initialize() ends up awaiting (0: initialize()
\* returned at once because isInitialized was already true)
InitializeTarget ==
  IF isInitialized THEN 0
  ELSE IF InitInProgress THEN initializationPromise
  ELSE NextAttempt

\* mutant: initialize() starts _doInitialize() on every call
InitializeAlways ==
  /\ initializationPromise' = NextAttempt
  /\ promise' = [promise EXCEPT ![NextAttempt] = Pending]
  /\ task' = [task EXCEPT ![NextAttempt].pc = "import"]

\* initialize(): return when initialized, join the attempt in progress, or
\* start _doInitialize(), which runs up to its first await (the imports)
Initialize ==
  IF isInitialized \/ InitInProgress
    THEN UNCHANGED <<initializationPromise, promise, task>>
    ELSE /\ initializationPromise' = NextAttempt
         /\ promise' = [promise EXCEPT ![NextAttempt] = Pending]
         /\ task' = [task EXCEPT ![NextAttempt].pc = "import"]

\* mutant: readiness is read off the initialization promise
IsReadyByPromise == initializationPromise # 0

\* isReady()
IsReady == isInitialized /\ llm # 0 /\ vectorStore # NullStore

\* getTopK()
GetTopK == DefaultTopK

\* mutant: a caller resumes as soon as its attempt has loaded the LLM
SettledEarly(r) ==
  \/ req[r].att = 0
  \/ promise[req[r].att].state \in {"resolved", "rejected"}
  \/ llm = req[r].att

\* the awaited promise has settled
Settled(r) == req[r].att = 0 \/ promise[req[r].att].state \in {"resolved", "rejected"}
\* mutant: the rejection of the awaited promise is not rethrown
AwaitNeverThrows(r) == TRUE

Succeeded(r) == req[r].att = 0 \/ promise[req[r].att].state = "resolved"

\* requests are numbered in the order they arrive
Arrives(r) ==
  /\ req[r].kind = "none"
  /\ \A s \in Requests : s < r => req[s].kind # "none"

\* -------------------------------------------------------------- strings
RECURSIVE TrimStart(_)
TrimStart(s) ==
  IF s # <<>> /\ Head(s) \in Whitespace THEN TrimStart(Tail(s)) ELSE s

RECURSIVE TrimEnd(_)
TrimEnd(s) ==
  IF s # <<>> /\ s[Len(s)] \in Whitespace
    THEN TrimEnd(SubSeq(s, 1, Len(s) - 1)) ELSE s

\* String.prototype.trim
Trim(s) == TrimEnd(TrimStart(s))

RECURSIVE Flatten(_)
\* the concatenation of a sequence of text fragments
Flatten(ts) == IF ts = <<>> THEN <<>> ELSE Head(ts) \o Flatten(Tail(ts))

\* ------------------------------------------ ChatController.streamChat
\* mutant: the query is not trimmed before it is compared with ''
InvalidQueryUntrimmed(q) ==
  \/ q.type = "undefined"
  \/ q.type = "string" /\ q.val = <<>>
  \/ q.type # "string"

\* !query || typeof query !== 'string' || query.trim() === ''
InvalidQuery(q) ==
  \/ q.type = "undefined"
  \/ q.type = "string" /\ q.val = <<>>
  \/ q.type # "string"
  \/ Trim(q.val) = <<>>

\* mutant: the token is sent in the message field of the event
ChunkEventInMessage(c) == [type |-> "chunk", content |-> <<>>, message |-> c]

ErrorEvent(m) == [type |-> "error", content |-> <<>>, message |-> m]
ChunkEvent(c) == [type |-> "chunk", content |-> c, message |-> ""]
DoneEvent == [type |-> "done", content |-> <<>>, message |-> "Stream completed"]

\* const k = topK || this.ragService.getTopK()
EffectiveTopK(t) == IF t = 0 THEN GetTopK ELSE t

\* mutant: the done event is sent after the catch block as well
CaughtThenDone(r, m) ==
  [req[r] EXCEPT !.events = Append(Append(@, ErrorEvent(m)), DoneEvent),
                 !.completes = @ + 1,
                 !.pc = "done"]

\* catch (error) { observer.next({type: 'error', ...}); observer.complete() }
Caught(r, m) ==
  [req[r] EXCEPT !.events = Append(@, ErrorEvent(m)),
                 !.completes = @ + 1,
                 !.pc = "done"]

\* ChatHandler.streamResponse(query, k) up to its first await: the same
\* validation as generateResponse is specified to have, then the retrieval
\* call; what it throws is caught by the controller
StreamResponse(rec) ==
  IF Trim(rec.query.val) = <<>>
    THEN [rec EXCEPT !.events = Append(@, ErrorEvent("InvalidInput")),
                     !.completes = @ + 1, !.pc = "done"]
    ELSE [rec EXCEPT !.searches = @ + 1, !.pc = "retrieve",
                     !.loads = LoadsPipeline(rec.handler.vectorStore.embeddings)]

\* getChatHandler() after its await: throw when there is no chat handler,
\* otherwise hand it out; the controller then picks k and starts
\* chatHandler.streamResponse(query, k), which runs up to its retrieval call
HandOut(r) ==
  IF chatHandler = NullHandler
    THEN Caught(r, "Chat handler not available")
    ELSE StreamResponse([req[r] EXCEPT !.handler = chatHandler,
                                       !.k = EffectiveTopK(req[r].topK)])

\* POST /chat/stream: the validation of the body
StreamChat(r, q, t) ==
  /\ Arrives(r)
  /\ req' = [req EXCEPT ![r] =
       IF InvalidQuery(q)
         THEN [NoRequest EXCEPT
                 !.kind = "chat", !.query = q, !.topK = t,
                 !.events = <<ErrorEvent("Query is required and must be a non-empty string")>>,
                 !.completes = 1, !.pc = "done"]
         ELSE [NoRequest EXCEPT
                 !.kind = "chat", !.query = q, !.topK = t, !.pc = "subscribed"]]
  /\ UNCHANGED <<svcVars, loaderVars, promise, task, envVars>>

\* mutant: getChatHandler() tests this.llm and wraps the current handles
GetChatHandlerByLlm(r) ==
  /\ req[r].kind = "chat" /\ req[r].pc = "subscribed"
  /\ IF llm = 0
       THEN /\ Initialize
            /\ req' = [req EXCEPT ![r].att = InitializeTarget,
                                  ![r].pc = "awaitInit"]
       ELSE /\ req' = [req EXCEPT ![r] =
                 StreamResponse([req[r] EXCEPT
                    !.handler = [vectorStore |-> vectorStore, llm |-> llm],
                    !.k = EffectiveTopK(req[r].topK)])]
            /\ UNCHANGED <<initializationPromise, promise, task>>
  /\ UNCHANGED <<llm, vectorStore, chatHandler, isInitialized, cleanupModel,
                 loaderVars, envVars>>

\* the observable is subscribed: await this.ragService.getChatHandler()
GetChatHandler(r) ==
  /\ req[r].kind = "chat" /\ req[r].pc = "subscribed"
  /\ IF ~isInitialized
       THEN /\ Initialize
            /\ req' = [req EXCEPT ![r].att = InitializeTarget,
                                  ![r].pc = "awaitInit"]
       ELSE /\ req' = [req EXCEPT ![r] = HandOut(r)]
            /\ UNCHANGED <<initializationPromise, promise, task>>
  /\ UNCHANGED <<llm, vectorStore, chatHandler, isInitialized, cleanupModel,
                 loaderVars, envVars>>

\* the awaited initialization settles for a chat request
ChatInitSettled(r) ==
  /\ req[r].kind = "chat" /\ req[r].pc = "awaitInit"
  /\ Settled(r)
  /\ req' = [req EXCEPT ![r] =
       IF Succeeded(r) THEN HandOut(r)
       ELSE Caught(r, promise[req[r].att].error)]
  /\ UNCHANGED <<svcVars, loaderVars, promise, task, envVars>>

\* ------------------------------------------------- RagController.warmup
Warmup(r) ==
  /\ Arrives(r)
  /\ IF IsReady
       THEN /\ req' = [req EXCEPT ![r] =
                 [NoRequest EXCEPT !.kind = "warmup", !.pc = "done",
                    !.result = "success",
                    !.message = "RAG system is already initialized"]]
            /\ UNCHANGED <<initializationPromise, promise, task>>
       ELSE /\ Initialize
            /\ req' = [req EXCEPT ![r] =
                 [NoRequest EXCEPT !.kind = "warmup", !.pc = "awaitInit",
                    !.att = InitializeTarget]]
  /\ UNCHANGED <<llm, vectorStore, chatHandler, isInitialized, cleanupModel,
                 loaderVars, envVars>>

WarmupInitSettled(r) ==
  /\ req[r].kind = "warmup" /\ req[r].pc = "awaitInit"
  /\ Settled(r)
  /\ req' = [req EXCEPT ![r] =
       IF Succeeded(r)
         THEN [req[r] EXCEPT !.pc = "done", !.result = "success",
                             !.message = "RAG system initialized successfully"]
         ELSE [req[r] EXCEPT !.pc = "done", !.result = "error",
                             !.message = promise[req[r].att].error]]
  /\ UNCHANGED <<svcVars, loaderVars, promise, task, envVars>>

\* --------------------------------------------- HealthController.checkHealth
\* mutant: the two fields report the flag and the handles separately
HealthReportByFields ==
  [initialized |-> isInitialized,
   ready |-> llm # 0 /\ vectorStore # NullStore]

HealthReport ==
  IF IsReady THEN [initialized |-> TRUE, ready |-> TRUE]
  ELSE [initialized |-> FALSE, ready |-> FALSE]

CheckHealth(r) ==
  /\ Arrives(r)
  /\ req' = [req EXCEPT ![r] =
       [NoRequest EXCEPT !.kind = "health", !.pc = "done",
          !.result = IF IsReady THEN "healthy" ELSE "unhealthy",
          !.report = HealthReport]]
  /\ UNCHANGED <<svcVars, loaderVars, promise, task, envVars>>

\* ------------------------------------------------------------ retrieval
Min(a, b) == IF a < b THEN a ELSE b

\* similaritySearch(vectorStore, query, k): at most k chunks of the store,
\* best first (chunk i is the i-th best)
SimilaritySearch(store, k) == [i \in 1..Min(k, store.n) |-> i]

\* doc.pageContent of the i-th best chunk of the store
PageContent(i) == <<"chunk ", ToString(i)>>

\* mutant: the label carries the 0-based index of map()
DocumentLabelFromZero(index) == <<"[Document ", ToString(index), "]", "\n">>

\* `[Document ${index + 1}]\n`, index the 0-based position in relevantDocs
DocumentLabel(index) == <<"[Document ", ToString(index + 1), "]", "\n">>

RECURSIVE Join(_, _)
\* Array.prototype.join(sep)
Join(parts, sep) ==
  IF parts = <<>> THEN <<>>
  ELSE IF Len(parts) = 1 THEN parts[1]
  ELSE parts[1] \o sep \o Join(Tail(parts), sep)

\* relevantDocs.map((doc, index) => label + doc.pageContent).join('\n\n')
ContextBlock(docs) ==
  Join([i \in 1..Len(docs) |-> DocumentLabel(i - 1) \o PageContent(docs[i])],
       <<"\n", "\n">>)

\* the preamble of the system prompt, with its general-knowledge fallback
Preamble ==
  <<"You are a helpful assistant. Use the following context to answer the user's question. ",
    "If the context doesn't contain relevant information, use your knowledge to provide a helpful response.",
    "\n", "\n", "Context:", "\n">>

Closing ==
  <<"\n", "\n", "Answer the user's question based on the context provided above.">>

\* the [Document i] context block and the two messages of the prompt
Prompt(rec, docs) ==
  [system |-> Preamble \o ContextBlock(docs) \o Closing, human |-> rec.query.val]

\* ------------------------------------------ ChatLlamaCpp._formatMessages
\* the three message classes the method tests for, and message contents
MessageClasses == {"SystemMessage", "HumanMessage", "AIMessage"}
Contents == { <<>>, <<"a", "b">> }
Messages == [class : MessageClasses, content : Contents]

\* mutant: there is no branch for AIMessage
FormatMessageTwoCases(prompt, message) ==
  IF message.class = "SystemMessage"
    THEN prompt \o <<"System: ">> \o message.content \o <<"\n", "\n">>
  ELSE IF message.class = "HumanMessage"
    THEN prompt \o <<"User: ">> \o message.content \o <<"\n", "\n">>
  ELSE prompt

\* the body of the for loop: prompt += `<Role>: ${message.content}\n\n` by
\* the class of the message, and nothing for any other class
FormatMessage(prompt, message) ==
  IF message.class = "SystemMessage"
    THEN prompt \o <<"System: ">> \o message.content \o <<"\n", "\n">>
  ELSE IF message.class = "HumanMessage"
    THEN prompt \o <<"User: ">> \o message.content \o <<"\n", "\n">>
  ELSE IF message.class = "AIMessage"
    THEN prompt \o <<"Assistant: ">> \o message.content \o <<"\n", "\n">>
  ELSE prompt

RECURSIVE FoldMessages(_, _)
\* the loop as a left fold of FormatMessage over the messages
FoldMessages(prompt, messages) ==
  IF messages = <<>> THEN prompt
  ELSE FoldMessages(FormatMessage(prompt, Head(messages)), Tail(messages))

\* _formatMessages(messages)
FormatMessages(messages) == FoldMessages(<<>>, messages) \o <<"Assistant:">>

\* one turn of for (const message of messages)
FormatTurn ==
  /\ formatting.pc = "loop" /\ formatting.i < Len(formatting.messages)
  /\ formatting' =
       [formatting EXCEPT
          !.i = @ + 1,
          !.prompt = FormatMessage(@, formatting.messages[formatting.i + 1])]
  /\ UNCHANGED <<svcVars, loaderVars, promise, task, indexFile, kbChunks,
                 dir, loading, req>>

\* the loop is over: prompt += 'Assistant:'; return prompt
FormatReturn ==
  /\ formatting.pc = "loop" /\ formatting.i = Len(formatting.messages)
  /\ formatting' = [formatting EXCEPT !.prompt = @ \o <<"Assistant:">>,
                                      !.pc = "returned"]
  /\ UNCHANGED <<svcVars, loaderVars, promise, task, indexFile, kbChunks,
                 dir, loading, req>>

\* --------------------------- ChatLlamaCpp._streamResponseChunks (adapter)
\* mutant: chunkQueue.unshift(chunk)
PushFront(q, chunk) == <<chunk>> \o q

\* onTextChunk: chunkQueue.push(chunk)
Push(q, chunk) == Append(q, chunk)

\* mutant: chunkQueue.pop()
Pop(q) == [chunk |-> q[Len(q)], rest |-> SubSeq(q, 1, Len(q) - 1)]

\* chunkQueue.shift()
Shift(q) == [chunk |-> Head(q), rest |-> Tail(q)]

\* mutant: while (!isComplete)
LoopUntilComplete(rec) == ~rec.isComplete

\* mutant: while (true)
LoopAlways(rec) == TRUE

\* while (!isComplete || chunkQueue.length > 0)
LoopContinues(rec) == ~rec.isComplete \/ Len(rec.chunkQueue) > 0

\* if (streamingError) throw new Error(`Streaming error: ...`)
ThrowsAfterLoop(rec) == rec.streamingError # ""

\* the retrieval of a chat request returns: the prompt is assembled and
\* llm.stream(messages) enters _streamResponseChunks, which starts
\* completePrompt in the background
ChatRetrieved(r, ok) ==
  /\ req[r].kind = "chat" /\ req[r].pc = "retrieve"
  /\ req' = [req EXCEPT ![r] =
       IF ok
         THEN [req[r] EXCEPT !.docs = SimilaritySearch(req[r].handler.vectorStore, req[r].k),
                             !.generations = @ + 1,
                             !.producer = "running",
                             !.pc = "consume"]
         ELSE Caught(r, "similaritySearch")]
  /\ pipeline' \in EmbedQuery(req[r].handler.vectorStore.embeddings, ok)
  /\ UNCHANGED <<svcVars, llama, model, context, modelLoads, promise, task,
                 envVars>>

\* mutant: the queue is a field of the adapter, shared by all its streams
\* (here: the queue of the first request)
OnTextChunkShared(r) ==
  /\ req[r].producer = "running"
  /\ Len(req[r].produced) < MaxTokens
  /\ LET chunk == Fragment(Len(req[r].produced) + 1)
     IN req' = [req EXCEPT ![1].chunkQueue = Push(@, chunk),
                           ![r].produced = Append(@, chunk)]
  /\ UNCHANGED <<svcVars, loaderVars, promise, task, envVars>>

\* the session generates its next fragment and calls onTextChunk(chunk)
OnTextChunk(r) ==
  /\ req[r].producer = "running"
  /\ Len(req[r].produced) < MaxTokens
  /\ LET chunk == Fragment(Len(req[r].produced) + 1)
     IN req' = [req EXCEPT ![r].chunkQueue = Push(@, chunk),
                           ![r].produced = Append(@, chunk)]
  /\ UNCHANGED <<svcVars, loaderVars, promise, task, envVars>>

\* completePrompt resolves: .then(() => { isComplete = true })
ProducerResolves(r) ==
  /\ req[r].producer = "running"
  /\ req' = [req EXCEPT ![r].isComplete = TRUE, ![r].producer = "resolved"]
  /\ UNCHANGED <<svcVars, loaderVars, promise, task, envVars>>

\* completePrompt rejects: .catch((err) => { streamingError = err; isComplete = true })
ProducerRejects(r) ==
  /\ req[r].producer = "running"
  /\ req' = [req EXCEPT ![r].streamingError = "completePrompt",
                        ![r].isComplete = TRUE,
                        ![r].producer = "rejected"]
  /\ UNCHANGED <<svcVars, loaderVars, promise, task, envVars>>

\* mutant: the loop sleeps on every turn until completion is signalled and
\* drains the queue only afterwards
ConsumePolling(r) ==
  /\ req[r].kind = "chat" /\ req[r].pc = "consume"
  /\ req' = [req EXCEPT ![r] =
       IF ~req[r].isComplete
         THEN [req[r] EXCEPT !.pc = "sleep"]
         ELSE IF Len(req[r].chunkQueue) > 0
           THEN [req[r] EXCEPT
                   !.chunkQueue = Shift(req[r].chunkQueue).rest,
                   !.yielded = Append(@, Shift(req[r].chunkQueue).chunk),
                   !.events = Append(@, ChunkEvent(Shift(req[r].chunkQueue).chunk))]
           ELSE IF ThrowsAfterLoop(req[r])
             THEN Caught(r, "Streaming error: " \o req[r].streamingError)
             ELSE [req[r] EXCEPT !.events = Append(@, DoneEvent),
                                 !.completes = @ + 1,
                                 !.pc = "done"]]
  /\ UNCHANGED <<svcVars, loaderVars, promise, task, envVars>>

\* one turn of the consumer loop.  A dequeued chunk is yielded and relayed
\* by the controller as a chunk event; with an empty queue and no
\* completion the loop sleeps 10 ms; after the loop the settled
\* streamingPromise is awaited and the recorded error, if any, is thrown to
\* the controller, which otherwise sends the done event
Consume(r) ==
  /\ req[r].kind = "chat" /\ req[r].pc = "consume"
  /\ req' = [req EXCEPT ![r] =
       IF LoopContinues(req[r])
         THEN IF Len(req[r].chunkQueue) > 0
                THEN [req[r] EXCEPT
                        !.chunkQueue = Shift(req[r].chunkQueue).rest,
                        !.yielded = Append(@, Shift(req[r].chunkQueue).chunk),
                        !.events = Append(@, ChunkEvent(Shift(req[r].chunkQueue).chunk))]
                ELSE [req[r] EXCEPT !.pc = "sleep"]
         ELSE IF ThrowsAfterLoop(req[r])
                THEN Caught(r, "Streaming error: " \o req[r].streamingError)
                ELSE [req[r] EXCEPT !.events = Append(@, DoneEvent),
                                    !.completes = @ + 1,
                                    !.pc = "done"]]
  /\ UNCHANGED <<svcVars, loaderVars, promise, task, envVars>>

\* setTimeout(resolve, 10) fires
TimerFires(r) ==
  /\ req[r].kind = "chat" /\ req[r].pc = "sleep"
  /\ req' = [req EXCEPT ![r].pc = "consume"]
  /\ UNCHANGED <<svcVars, loaderVars, promise, task, envVars>>

\* the client of a chat stream closes the connection and the transport
\* unsubscribes: the subscribe function of the Observable returns no
\* teardown, no abort signal is handed to completePrompt and the generator
\* has no finally block, so only the subscriber is marked closed
ClientDisconnects(r) ==
  /\ req[r].kind = "chat"
  /\ req[r].pc \in {"subscribed", "awaitInit", "retrieve", "consume", "sleep"}
  /\ ~req[r].closed
  /\ req' = [req EXCEPT ![r].closed = TRUE]
  /\ UNCHANGED <<svcVars, loaderVars, promise, task, envVars>>

\* --------------------------------------- ChatHandler.generateResponse
\* the fragments the session generates when it stops after n of them
Generated(n) == [i \in 1..n |-> Fragment(i)]

\* generateResponse(query, topK) up to its first await: the retrieval call
GenerateResponseCall(kind, q, k) ==
  [NoRequest EXCEPT !.kind = kind, !.query = q, !.k = k,
                    !.handler = chatHandler,
                    !.searches = 1, !.pc = "retrieve",
                    !.loads = LoadsPipeline(chatHandler.vectorStore.embeddings)]

\* a caller holding the chat handler calls generateResponse(query, topK)
GenerateResponse(r, q, k) ==
  /\ Arrives(r)
  /\ isInitialized
  /\ q.type = "string"
  /\ req' = [req EXCEPT ![r] = GenerateResponseCall("answer", q, k)]
  /\ UNCHANGED <<svcVars, loaderVars, promise, task, envVars>>

\* index.js askQuestion: an empty line asks again, any other line is
\* answered with generateResponse(query, config.topK)
AskQuestion(r, q) ==
  /\ Arrives(r)
  /\ isInitialized
  /\ q.type = "string"
  /\ req' = [req EXCEPT ![r] =
       IF Trim(q.val) = <<>>
         THEN [NoRequest EXCEPT !.kind = "cli", !.query = q, !.pc = "done",
                                !.result = "skipped"]
         ELSE GenerateResponseCall("cli", q, DefaultTopK)]
  /\ UNCHANGED <<svcVars, loaderVars, promise, task, envVars>>

\* mutant: a failed retrieval resets the service for a new initialization
AnswerRetrievedResets(r, ok) ==
  /\ req[r].kind \in {"answer", "cli"} /\ req[r].pc = "retrieve"
  /\ ~ok
  /\ req' = [req EXCEPT ![r].pc = "done", ![r].result = "rejected",
                        ![r].message = "similaritySearch"]
  /\ isInitialized' = FALSE
  /\ initializationPromise' = 0
  /\ pipeline' \in EmbedQuery(req[r].handler.vectorStore.embeddings, ok)
  /\ UNCHANGED <<llm, vectorStore, chatHandler, cleanupModel, llama, model,
                 context, modelLoads, promise, task, envVars>>

\* the retrieval of generateResponse returns; llm.invoke(messages) runs
\* _generate up to chatSession.prompt(prompt, ...)
AnswerRetrieved(r, ok) ==
  /\ req[r].kind \in {"answer", "cli"} /\ req[r].pc = "retrieve"
  /\ req' = [req EXCEPT ![r] =
       IF ok
         THEN [req[r] EXCEPT !.docs = SimilaritySearch(req[r].handler.vectorStore, req[r].k),
                             !.messages = Prompt(req[r], SimilaritySearch(req[r].handler.vectorStore, req[r].k)),
                             !.generations = @ + 1,
                             !.pc = "generate"]
         ELSE [req[r] EXCEPT !.pc = "done", !.result = "rejected",
                             !.message = "similaritySearch"]]
  /\ pipeline' \in EmbedQuery(req[r].handler.vectorStore.embeddings, ok)
  /\ UNCHANGED <<svcVars, llama, model, context, modelLoads, promise, task,
                 envVars>>

\* mutant: the text returned is the first fragment of the response
GenerateTextHead(fragments) ==
  IF fragments = <<>> THEN <<>> ELSE Head(fragments)

\* _generate: generations[0].text is the session's response
GenerateText(fragments) == Flatten(fragments)

\* chatSession.prompt settles: the session generated the fragments and
\* resolves with their text, or rejects
AnswerGenerated(r, ok, n) ==
  /\ req[r].kind \in {"answer", "cli"} /\ req[r].pc = "generate"
  /\ req' = [req EXCEPT ![r] =
       IF ok
         THEN [req[r] EXCEPT !.produced = Generated(n),
                             !.response = GenerateText(Generated(n)),
                             !.pc = "done", !.result = "resolved"]
         ELSE [req[r] EXCEPT !.pc = "done", !.result = "rejected",
                             !.message = "prompt"]]
  /\ UNCHANGED <<svcVars, loaderVars, promise, task, envVars>>

\* ------------------------------------------------------------------ Next
\* the steps of _doInitialize
NextInit ==
  \/ \E a \in Attempts : ImportsDone(a)
  \/ \E a \in Attempts, ok \in BOOLEAN : GetLlamaDone(a, ok)
  \/ \E a \in Attempts, ok \in BOOLEAN : LoadModelDone(a, ok)
  \/ \E a \in Attempts, ok \in BOOLEAN : CreateContextDone(a, ok)
  \/ \E a \in Attempts : Construct(a)
  \/ \E a \in Attempts, ok \in BOOLEAN : LoadIndexDone(a, ok)
  \/ \E a \in Attempts, ok \in BOOLEAN : LoadDocumentsDone(a, ok)
  \/ \E a \in Attempts, ok \in BOOLEAN : FromDocumentsDone(a, ok)
  \/ \E a \in Attempts, ok \in BOOLEAN, wrote \in BOOLEAN : SaveDone(a, ok, wrote)
  \/ \E a \in Attempts, loaded \in BOOLEAN : InitializeVectorStoreDone(a, loaded)

\* the entry points of the server, up to the hand-out of the chat handler
NextEntry ==
  \/ \E r \in Requests, q \in SomeQueries : StreamChat(r, q, 0)
  \/ \E r \in Requests : GetChatHandler(r)
  \/ \E r \in Requests : ChatInitSettled(r)
  \/ \E r \in Requests : Warmup(r)
  \/ \E r \in Requests : WarmupInitSettled(r)
  \/ \E r \in Requests : CheckHealth(r)

\* retrieval and streaming generation of a chat request
NextStream ==
  \/ \E r \in Requests, ok \in BOOLEAN : ChatRetrieved(r, ok)
  \/ \E r \in Requests : OnTextChunk(r)
  \/ \E r \in Requests : ProducerResolves(r)
  \/ \E r \in Requests : ProducerRejects(r)
  \/ \E r \in Requests : Consume(r)
  \/ \E r \in Requests : TimerFires(r)

\* one-shot answers of a caller that holds the chat handler
NextAnswer ==
  \/ \E r \in Requests, q \in SomeQueries, k \in TopKInputs : GenerateResponse(r, q, k)
  \/ \E r \in Requests, q \in SomeQueries : AskQuestion(r, q)
  \/ \E r \in Requests, ok \in BOOLEAN : AnswerRetrieved(r, ok)
  \/ \E r \in Requests, ok \in BOOLEAN, n \in 0..MaxTokens :
       AnswerGenerated(r, ok, n)

\* the initialization lifecycle under concurrent requests
Next == NextInit \/ NextEntry

Spec == Init /\ [][Next]_vars

\* the continuation of a settled promise is always run: a caller whose
\* awaited attempt has settled resumes
SpecFair ==
  /\ Spec
  /\ WF_vars(\E r \in 1..MaxRequests : ChatInitSettled(r))
  /\ WF_vars(\E r \in 1..MaxRequests : WarmupInitSettled(r))

\* the whole server end to end: initialization, streaming and shutdown
InitClients == InitServer(MaxClients)

NextServer == NextInit \/ NextEntry \/ NextStream \/ OnModuleDestroy

SpecServer == InitClients /\ [][NextServer]_vars

\* a system that is Ready after its first initialization attempt: the store
\* was loaded from the index, built from the corpus and saved, or is empty
ReadyService ==
  /\ llm = 1
  /\ kbChunks \in 0..MaxChunks
  /\ \/ /\ kbChunks = 0
        /\ indexFile = NoIndex
        /\ vectorStore = [kind |-> "empty", embeddings |-> 1, n |-> 0]
        /\ task = <<[pc |-> "returned", documents |-> 0]>>
     \/ /\ kbChunks > 0
        /\ indexFile = kbChunks
        /\ \/ /\ vectorStore = [kind |-> "built", embeddings |-> 1, n |-> kbChunks]
              /\ task = <<[pc |-> "returned", documents |-> kbChunks]>>
           \/ /\ vectorStore = [kind |-> "loaded", embeddings |-> 1, n |-> kbChunks]
              /\ task = <<[pc |-> "returned", documents |-> 0]>>
  /\ chatHandler = [vectorStore |-> vectorStore, llm |-> 1]
  /\ isInitialized = TRUE
  /\ initializationPromise = 1
  /\ cleanupModel = TRUE
  /\ llama = TRUE /\ model = TRUE /\ context = TRUE
  /\ modelLoads = 1
  /\ pipeline = IF vectorStore.kind = "built" THEN {1} ELSE {}
  /\ promise = <<Resolved>>
  /\ dir = NoDirectory
  /\ loading = NotLoading

InitReady ==
  /\ ReadyService
  /\ formatting = NotFormatting
  /\ req = [r \in 1..MaxClients |-> NoRequest]

\* requests on a Ready system: chat streams and one-shot answers
NextReady ==
  \/ \E r \in Requests, q \in Queries, t \in TopKInputs : StreamChat(r, q, t)
  \/ \E r \in Requests : GetChatHandler(r)
  \/ NextStream
  \/ NextAnswer

SpecReady == InitReady /\ [][NextReady]_vars

\* chat streams on a Ready system whose clients may go away
NextCancel ==
  \/ \E r \in Requests, q \in SomeQueries : StreamChat(r, q, 0)
  \/ \E r \in Requests : GetChatHandler(r)
  \/ NextStream
  \/ \E r \in Requests : ClientDisconnects(r)

SpecCancel == InitReady /\ [][NextCancel]_vars

\* a valid query
ValidQuery == Str(<<" ", "q">>)

\* one more request than clients: a Ready system serving a chat stream and
\* a one-shot answer side by side or one after the other, whose retrievals
\* may fail
InitRetrieval ==
  /\ ReadyService
  /\ formatting = NotFormatting
  /\ req = [r \in 1..(MaxClients + 1) |-> NoRequest]

NextRetrieval ==
  \/ \E r \in Requests : StreamChat(r, ValidQuery, 0)
  \/ \E r \in Requests : GetChatHandler(r)
  \/ \E r \in Requests, ok \in BOOLEAN : ChatRetrieved(r, ok)
  \/ \E r \in Requests : GenerateResponse(r, ValidQuery, 1)
  \/ \E r \in Requests, ok \in BOOLEAN : AnswerRetrieved(r, ok)
  \/ \E r \in Requests, ok \in BOOLEAN : AnswerGenerated(r, ok, 1)

SpecRetrieval == InitRetrieval /\ [][NextRetrieval]_vars

\* chat streams on a Ready system whose consumers keep pulling: the loop of
\* every stream is resumed after each yield and its 10 ms timer fires
NextStreaming ==
  \/ \E r \in Requests : StreamChat(r, ValidQuery, 0)
  \/ \E r \in Requests : GetChatHandler(r)
  \/ NextStream

SpecStreaming ==
  /\ InitReady
  /\ [][NextStreaming]_vars
  /\ \A r \in 1..MaxClients : WF_vars(Consume(r))
  /\ \A r \in 1..MaxClients : WF_vars(TimerFires(r))

\* concurrent chat streams on a Ready system with a store built from the
\* whole corpus
InitStreams ==
  /\ ReadyService
  /\ vectorStore = [kind |-> "built", embeddings |-> 1, n |-> MaxChunks]
  /\ formatting = NotFormatting
  /\ req = [r \in 1..(MaxClients + 1) |-> NoRequest]

SpecStreams == InitStreams /\ [][NextStreaming]_vars

\* loadModel() and cleanup(): warm-up calls that initialize and retry, and
\* cleanup at any time
NextLoadModel ==
  \/ NextInit
  \/ \E r \in Requests : Warmup(r)
  \/ \E r \in Requests : WarmupInitSettled(r)
  \/ OnModuleDestroy

SpecLoadModel == Init /\ [][NextLoadModel]_vars

\* the document loader on every directory
InitLoader ==
  /\ FreshService(MaxClients)
  /\ kbChunks = 0
  /\ dir \in Directories
  /\ loading = NotLoading
  /\ formatting = NotFormatting

NextLoader ==
  \/ ReadDir
  \/ \E i \in 1..MaxFiles : ReadFile(i)
  \/ ReturnDocuments

SpecLoader == InitLoader /\ [][NextLoader]_vars

\* _formatMessages on every sequence of messages, called on the adapter of
\* a Ready system
InitFormat ==
  /\ ReadyService
  /\ kbChunks = 0
  /\ req = [r \in 1..MaxClients |-> NoRequest]
  /\ \E ms \in SeqsUpTo(Messages, MaxMessages) :
       formatting = [pc |-> "loop", messages |-> ms, i |-> 0, prompt |-> <<>>]

NextFormat == FormatTurn \/ FormatReturn

SpecFormat == InitFormat /\ [][NextFormat]_vars

\* =================================================================
\* Properties
\* =================================================================
Started == { a \in Attempts : promise[a].state # "none" }
PendingAttempts == { a \in Attempts : promise[a].state = "pending" }
RejectedAttempts == { a \in Attempts : promise[a].state = "rejected" }
ResolvedAttempts == { a \in Attempts : promise[a].state = "resolved" }

\* the callers of initialize(): those that awaited an attempt
Waited(r) == req[r].kind \in {"chat", "warmup"} /\ req[r].att # 0
Waiting(r) == Waited(r) /\ req[r].pc = "awaitInit"

\* what a caller saw of the initialization it awaited
InitOutcome(r) ==
  IF req[r].kind = "warmup"
    THEN IF req[r].result = "success" THEN Resolved
         ELSE Rejected(req[r].message)
    ELSE IF req[r].handler # NullHandler THEN Resolved
         ELSE Rejected(req[r].events[Len(req[r].events)].message)

\* C1: calls to initialize() made while an attempt is in flight start no
\* second _doInitialize (at most one attempt is pending, and a new one is
\* started only after the previous one was rejected), the model is loaded
\* at most once per attempt, and every caller of one attempt sees the
\* outcome of that attempt
C1_SingleFlight ==
  /\ Cardinality(PendingAttempts) <= 1
  /\ Cardinality(Started) <= Cardinality(RejectedAttempts) + 1
  /\ modelLoads <= Cardinality(Started)
  /\ \A r \in Requests :
       /\ Waiting(r) /\ req[r].att \in PendingAttempts
            => req[r].att = initializationPromise
       /\ Waited(r) /\ ~Waiting(r) => InitOutcome(r) = promise[req[r].att]

\* two callers joined the same attempt and both saw it settle
C1_Witness ==
  \E r1, r2 \in Requests :
    /\ r1 # r2
    /\ Waited(r1) /\ Waited(r2)
    /\ req[r1].att = req[r2].att
    /\ ~Waiting(r1) /\ ~Waiting(r2)

\* a request calls initialize() in this step
CallsInitialize(r) == req[r].pc # "awaitInit" /\ req'[r].pc = "awaitInit"

Terminals(r) ==
  { i \in 1..Len(req[r].events) : req[r].events[i].type \in {"done", "error"} }

\* C3: the adapter yields the pushed fragments in the order of emission:
\* at any time the fragments yielded so far followed by the queued ones are
\* exactly the fragments pushed, and when the stream has ended every pushed
\* fragment has been yielded
C3_StreamOrder ==
  \A r \in Requests :
    req[r].kind = "chat" =>
      /\ req[r].yielded \o req[r].chunkQueue = req[r].produced
      /\ req[r].pc = "done" => req[r].yielded = req[r].produced

\* a stream of at least two fragments has ended
C3_Witness ==
  \E r \in Requests :
    /\ req[r].kind = "chat" /\ req[r].pc = "done"
    /\ Len(req[r].yielded) >= 2

\* C4: a chat response sequence that has ended holds exactly one terminal
\* event, which is its last event, and the observer was completed once; a
\* sequence that has not ended holds no terminal event and is not completed
C4_OneTerminalEvent ==
  \A r \in Requests :
    req[r].kind = "chat" =>
      IF req[r].pc = "done"
        THEN /\ Terminals(r) = {Len(req[r].events)}
             /\ req[r].completes = 1
        ELSE /\ Terminals(r) = {}
             /\ req[r].completes = 0

\* a request that waited for the initialization streamed a chunk and ended
C4_Witness ==
  \E r \in Requests :
    /\ req[r].kind = "chat" /\ req[r].pc = "done"
    /\ req[r].att # 0
    /\ Len(req[r].events) >= 2

\* the chunk events of a sequence of fragments
ChunkEvents(fs) == [i \in 1..Len(fs) |-> ChunkEvent(fs[i])]

\* C5: when the producer has failed, no error event is sent while pushed
\* fragments are still undelivered, and the ended sequence is the chunk
\* events of every pushed fragment, in order, followed by one error event
C5_ErrorAfterTokens ==
  \A r \in Requests :
    req[r].kind = "chat" /\ req[r].producer = "rejected" =>
      IF req[r].pc = "done"
        THEN req[r].events =
               Append(ChunkEvents(req[r].produced),
                      ErrorEvent("Streaming error: completePrompt"))
        ELSE req[r].events = ChunkEvents(req[r].yielded)

\* the producer failed after two fragments and the sequence has ended
C5_Witness ==
  \E r \in Requests :
    /\ req[r].kind = "chat" /\ req[r].pc = "done"
    /\ req[r].producer = "rejected"
    /\ Len(req[r].produced) >= 2

\* an empty or whitespace-only query string
Blank(q) == q.type = "string" /\ Trim(q.val) = <<>>

\* C6: a request with an empty or whitespace-only query makes no retrieval
\* call and no generation call, on the streaming path and on the one-shot
\* path (generateResponse)
C6_BlankQueryRejected ==
  \A r \in Requests :
    req[r].kind \in {"chat", "answer", "cli"} /\ Blank(req[r].query) =>
      req[r].searches = 0 /\ req[r].generations = 0

\* the streaming path alone: a chat request with an invalid query ends with
\* the one error event and no retrieval or generation call
C6_StreamPathRejects ==
  \A r \in Requests :
    req[r].kind = "chat" /\ InvalidQuery(req[r].query) =>
      /\ req[r].searches = 0 /\ req[r].generations = 0
      /\ req[r].events =
           <<ErrorEvent("Query is required and must be a non-empty string")>>

\* RAG work of a chat request: it holds the handler or has called retrieval
Working(r) ==
  req[r].kind = "chat" /\ (req[r].handler # NullHandler \/ req[r].searches > 0)

\* C7: a chat request does RAG work only on an initialized service whose
\* handler it holds and, if it waited, after its attempt resolved; every
\* request waiting on a pending attempt waits on the one attempt in flight,
\* and none moves on before the attempt it awaits has settled
C7_NoWorkBeforeReady ==
  \A r \in Requests :
    /\ Working(r) =>
         /\ isInitialized
         /\ req[r].handler = chatHandler /\ chatHandler # NullHandler
         /\ req[r].att # 0 => promise[req[r].att] = Resolved
    /\ Waiting(r) /\ req[r].att \in PendingAttempts
         => req[r].att = initializationPromise
    /\ Waited(r) /\ ~Waiting(r)
         => promise[req[r].att].state \in {"resolved", "rejected"}

\* two chat requests waited on the same attempt and both started retrieval
C7_Witness ==
  \E r1, r2 \in Requests :
    /\ r1 # r2
    /\ Working(r1) /\ Working(r2)
    /\ req[r1].att # 0 /\ req[r1].att = req[r2].att

ReportFalse == [initialized |-> FALSE, ready |-> FALSE]
ReportTrue == [initialized |-> TRUE, ready |-> TRUE]

\* C9: the readiness report is {false, false} while no attempt has
\* resolved (before any attempt and after failed attempts alike) and
\* {true, true} once an attempt has resolved; a health check that answered
\* {true, true} was served by a service that is Ready
C9_ReadinessReport ==
  /\ ResolvedAttempts = {} => HealthReport = ReportFalse
  /\ ResolvedAttempts # {} => HealthReport = ReportTrue
  /\ \A r \in Requests :
       req[r].kind = "health" =>
         /\ req[r].report \in {ReportFalse, ReportTrue}
         /\ req[r].report = ReportTrue => ResolvedAttempts # {}

\* after a failed attempt a health check reports {false, false}
C9_Witness ==
  /\ RejectedAttempts # {} /\ PendingAttempts = {}
  /\ HealthReport = ReportFalse
  /\ \E r \in Requests : req[r].kind = "health" /\ req[r].report = ReportFalse

\* ChatLlamaCpp._streamResponseChunks of the first version of the adapter:
\* the whole response is yielded as a single chunk
SingleChunkStream(fragments) == <<GenerateText(fragments)>>

\* C10: for a stream that ended normally, the concatenation of the yielded
\* fragments is the text _generate returns when the session generates the
\* same fragments, and the text of the single chunk the first version of
\* the adapter yields for them
C10_ConcatEqualsGenerate ==
  \A r \in Requests :
    req[r].kind = "chat" /\ req[r].pc = "done" /\ req[r].producer = "resolved" =>
      /\ Flatten(req[r].yielded) = GenerateText(Generated(Len(req[r].produced)))
      /\ Flatten(req[r].yielded) = Flatten(SingleChunkStream(req[r].produced))

\* a stream of two fragments or more ended normally
C10_Witness ==
  \E r \in Requests :
    /\ req[r].kind = "chat" /\ req[r].pc = "done"
    /\ req[r].producer = "resolved"
    /\ Len(req[r].yielded) >= 2

\* the lifecycle state of the service
LifecycleState ==
  IF IsReady THEN "Ready"
  ELSE IF initializationPromise # 0 THEN "Initializing"
  ELSE "Uninitialized"

\* C11: every step keeps the lifecycle state or moves it along
\* Uninitialized -> Initializing -> Ready or back from Initializing to
\* Uninitialized; the state is Initializing exactly while the attempt
\* initializationPromise names is pending, it goes back only when that
\* attempt is rejected and forward only when it resolves; in state Ready
\* no step (a call to initialize() included) changes the handles, the
\* initialization promise or any attempt
C11_Lifecycle ==
  [][ /\ <<LifecycleState, LifecycleState'>> \in
           { <<"Uninitialized", "Uninitialized">>,
             <<"Uninitialized", "Initializing">>,
             <<"Initializing", "Initializing">>,
             <<"Initializing", "Uninitialized">>,
             <<"Initializing", "Ready">>,
             <<"Ready", "Ready">> }
      /\ LifecycleState' = "Initializing"
           => promise'[initializationPromise'].state = "pending"
      /\ LifecycleState = "Initializing" /\ LifecycleState' = "Uninitialized"
           => promise'[initializationPromise].state = "rejected"
      /\ LifecycleState = "Initializing" /\ LifecycleState' = "Ready"
           => promise'[initializationPromise].state = "resolved"
      /\ LifecycleState = "Ready"
           => UNCHANGED <<llm, vectorStore, chatHandler, isInitialized,
                          initializationPromise, promise, task>> ]_vars

\* in state Ready a warm-up call or a chat request went through
\* initialize() / getChatHandler() without awaiting any attempt
C11_Witness ==
  /\ LifecycleState = "Ready"
  /\ \E r \in Requests :
       /\ req[r].kind \in {"chat", "warmup"}
       /\ req[r].att = 0
       /\ req[r].pc \in {"retrieve", "done"}
       /\ req[r].kind = "chat" => req[r].handler # NullHandler

\* the attempt a request awaited was rejected
AttemptFailed(r) == Waited(r) /\ promise[req[r].att].state = "rejected"

\* C12: every caller that waited on an attempt that failed is told so: a
\* chat request that has resumed holds exactly one event, the error event
\* carrying the (non-empty) message of the failure, and is completed; a
\* warm-up call that has resumed returns the error response with that
\* message; and every such waiter does resume (again and again the state
\* is one in which no caller of a failed attempt is still waiting)
C12_FailureReachesAllWaiters ==
  /\ [](\A r \in 1..MaxRequests :
          AttemptFailed(r) /\ ~Waiting(r) =>
            /\ promise[req[r].att].error # ""
            /\ req[r].pc = "done"
            /\ req[r].kind = "chat" =>
                 /\ req[r].events = <<ErrorEvent(promise[req[r].att].error)>>
                 /\ req[r].completes = 1
                 /\ req[r].handler = NullHandler
            /\ req[r].kind = "warmup" =>
                 /\ req[r].result = "error"
                 /\ req[r].message = promise[req[r].att].error)
  /\ []<>(\A r \in 1..MaxRequests : AttemptFailed(r) => req[r].pc = "done")

\* a chat request and a warm-up call waited on the same attempt, it failed,
\* and both have resumed
C12_Witness ==
  \E r1, r2 \in Requests :
    /\ req[r1].kind = "chat" /\ req[r2].kind = "warmup"
    /\ req[r1].att = req[r2].att
    /\ AttemptFailed(r1) /\ AttemptFailed(r2)
    /\ req[r1].pc = "done" /\ req[r2].pc = "done"

\* a warm-up call arrives in this step
WarmupArrives(r) == req[r].kind = "none" /\ req'[r].kind = "warmup"

\* C13: whatever warm-up calls and chat requests are made, at most one
\* attempt succeeds and none is started or left pending once one has
\* succeeded; a warm-up call that arrives when the system is Ready changes
\* no attempt, promise or handle and answers success at once
C13_WarmupIdempotent ==
  /\ [](/\ Cardinality(ResolvedAttempts) <= 1
        /\ \A a \in ResolvedAttempts, b \in Attempts :
             /\ b < a => promise[b].state = "rejected"
             /\ b > a => promise[b].state = "none")
  /\ [][ \A r \in 1..MaxRequests :
           WarmupArrives(r) /\ IsReady =>
             /\ UNCHANGED <<svcVars, loaderVars, promise, task>>
             /\ req'[r].pc = "done" /\ req'[r].result = "success"
             /\ req'[r].att = 0 ]_vars

\* one warm-up call initialized the system and a later one found it Ready
C13_Witness ==
  \E r1, r2 \in Requests :
    /\ req[r1].kind = "warmup" /\ req[r2].kind = "warmup"
    /\ req[r1].message = "RAG system initialized successfully"
    /\ req[r2].message = "RAG system is already initialized"
    /\ req[r2].result = "success"

\* C14: once the consumer of a chat stream is gone, the generation behind
\* it enqueues no further token and the adapter yields none
C14_GenerationStopsWithConsumer ==
  [][ \A r \in 1..MaxClients :
        req[r].closed =>
          /\ req'[r].produced = req[r].produced
          /\ req'[r].yielded = req[r].yielded ]_vars

\* C15: a chat stream on a Ready system whose generator emitted the
\* fragments t1..tn and then completed holds exactly n + 1 events: the
\* event {type: "chunk", content: ti} at position i for i = 1..n, then
\* {type: "done", message: "Stream completed"}
C15_ChunksThenDone ==
  \A r \in Requests :
    req[r].kind = "chat" /\ req[r].pc = "done" /\ req[r].producer = "resolved" =>
      /\ Len(req[r].events) = Len(req[r].produced) + 1
      /\ \A i \in 1..Len(req[r].produced) :
           req[r].events[i] =
             [type |-> "chunk", content |-> req[r].produced[i], message |-> ""]
      /\ req[r].events[Len(req[r].events)] =
           [type |-> "done", content |-> <<>>, message |-> "Stream completed"]
      /\ req[r].completes = 1

\* a generator that emitted a single fragment: one chunk event, then done
C15_Witness ==
  \E r \in Requests :
    /\ req[r].kind = "chat" /\ req[r].pc = "done"
    /\ req[r].producer = "resolved"
    /\ req[r].produced = <<Fragment(1)>>
    /\ Len(req[r].events) = 2

\* the context block of a system prompt: what stands between the preamble
\* and the closing sentence
BlockOf(system) == SubSeq(system, Len(Preamble) + 1, Len(system) - Len(Closing))

\* where the i-th entry of a context block starts: an entry is a label of
\* four tokens and a chunk text of two, and two line feeds separate entries
EntryStart(i) == (i - 1) * 8 + 1

\* C17: in the prompt generateResponse builds, the context block holds one
\* entry per retrieved chunk, in retrieval order: the i-th entry is the
\* label [Document i] (1-based), a line feed and the text of the i-th
\* retrieved chunk; entries are separated by an empty line, every retrieved
\* text occurs exactly once and the block holds nothing else
C17_ContextBlock ==
  \A r \in Requests :
    req[r].kind \in {"answer", "cli"} /\ req[r].generations > 0 =>
      LET system == req[r].messages.system
          block == BlockOf(system)
          m == Len(req[r].docs)
      IN /\ SubSeq(system, 1, Len(Preamble)) = Preamble
         /\ SubSeq(system, Len(system) - Len(Closing) + 1, Len(system)) = Closing
         /\ Len(block) = IF m = 0 THEN 0 ELSE 8 * m - 2
         /\ \A i \in 1..m :
              /\ SubSeq(block, EntryStart(i), EntryStart(i) + 3) =
                   <<"[Document ", ToString(i), "]", "\n">>
              /\ SubSeq(block, EntryStart(i) + 4, EntryStart(i) + 5) =
                   PageContent(req[r].docs[i])
              /\ i < m => SubSeq(block, EntryStart(i) + 6, EntryStart(i) + 7) =
                            <<"\n", "\n">>
              /\ Cardinality({ p \in 1..(Len(block) - 1) :
                               SubSeq(block, p, p + 1) = PageContent(req[r].docs[i]) }) = 1
              /\ \A j \in 1..m : i < j => req[r].docs[i] < req[r].docs[j]

\* a prompt was built from two retrieved chunks
C17_Witness ==
  \E r \in Requests :
    /\ req[r].kind \in {"answer", "cli"} /\ req[r].generations > 0
    /\ Len(req[r].docs) >= 2

\* the retrieval of request r fails in this step
RetrievalFails(r) ==
  /\ req[r].pc = "retrieve"
  /\ req'[r].pc = "done"
  /\ req'[r].generations = 0

\* request r has been served past its retrieval
Served(r) == req[r].kind \in {"chat", "answer"} /\ req[r].generations > 0

\* C18: the step in which the retrieval of a request fails changes nothing
\* but that request: the service stays Ready with the same handles, every
\* other request is as it was, and the failing request alone gets the
\* failure (one error event and completion for a chat stream, a rejection
\* for a one-shot answer); whatever failed before or beside it, a request
\* whose own retrieval returned holds the documents of the shared store
C18_RetrievalFailureIsLocal ==
  /\ [][ \A r \in 1..(MaxClients + 1) :
           RetrievalFails(r) =>
             /\ UNCHANGED <<svcVars, llama, model, context, modelLoads,
                            promise, task, envVars>>
             /\ IsReady'
             /\ \A s \in 1..(MaxClients + 1) : s # r => req'[s] = req[s]
             /\ req[r].kind = "chat" =>
                  /\ req'[r].events = <<ErrorEvent("similaritySearch")>>
                  /\ req'[r].completes = 1
             /\ req[r].kind = "answer" => req'[r].result = "rejected" ]_vars
  /\ [](\A r \in 1..(MaxClients + 1) :
          Served(r) =>
            /\ IsReady
            /\ req[r].handler = chatHandler
            /\ req[r].docs = SimilaritySearch(vectorStore, req[r].k)
            /\ req[r].kind = "chat" => req[r].events = <<>>)

\* the retrieval of one request failed and a request that arrived after it
\* was answered
C18_Witness ==
  \E r1, r2 \in Requests :
    /\ r1 < r2
    /\ req[r1].pc = "done" /\ req[r1].generations = 0
    /\ req[r1].searches = 1
    /\ req[r2].kind = "answer" /\ req[r2].result = "resolved"

\* an empty, whitespace-only or non-string query
Malformed(q) == q.type # "string" \/ Blank(q)

\* a chat request arrives in this step
ChatArrives(r) == req[r].kind = "none" /\ req'[r].kind = "chat"

\* C19: the step in which a chat request with a malformed query arrives
\* changes no state of the service, of the loader or of any attempt and no
\* other request: the request is answered with the one error event and
\* completed, it never calls initialize() and never holds the handler
C19_InvalidInputChangesNothing ==
  /\ [][ \A r \in 1..MaxRequests :
           ChatArrives(r) /\ Malformed(req'[r].query) =>
             /\ UNCHANGED <<svcVars, loaderVars, promise, task, envVars>>
             /\ LifecycleState' = LifecycleState
             /\ \A s \in 1..MaxRequests : s # r => req'[s] = req[s]
             /\ req'[r].pc = "done" ]_vars
  /\ [](\A r \in 1..MaxRequests :
          req[r].kind = "chat" /\ Malformed(req[r].query) =>
            /\ req[r].pc = "done"
            /\ req[r].att = 0 /\ req[r].handler = NullHandler
            /\ req[r].searches = 0 /\ req[r].generations = 0
            /\ req[r].events =
                 <<ErrorEvent("Query is required and must be a non-empty string")>>
            /\ req[r].completes = 1)

\* a whitespace-only query was rejected and the system is Uninitialized
\* with no attempt ever started
C19_Witness ==
  /\ LifecycleState = "Uninitialized"
  /\ Started = {}
  /\ \E r \in Requests :
       /\ req[r].kind = "chat" /\ Blank(req[r].query)
       /\ req[r].query.val # <<>>
       /\ req[r].pc = "done"

\* C20: every retrieval call, of a chat stream or of a one-shot answer, is
\* made with k >= 1
C20_TopKAtLeastOne ==
  \A r \in Requests :
    req[r].kind \in {"chat", "answer", "cli"} /\ req[r].searches > 0
      => req[r].k >= 1

\* the default is used exactly when the request carries no (or a zero) topK
C20_DefaultWhenMissing ==
  \A r \in Requests :
    req[r].kind = "chat" /\ req[r].searches > 0 =>
      req[r].k = IF req[r].topK = 0 THEN DefaultTopK ELSE req[r].topK

\* C21: a new store (built from the corpus or empty) is created only in an
\* attempt that found no index file; an attempt whose load of an existing
\* index fails is rejected with the load error and creates no store; and an
\* index file that exists is never written again
C21_CorruptIndexIsFatal ==
  [][ /\ \A a \in 1..MaxRequests :
           task[a].pc = "loadIndex" /\ task'[a].pc = "thrown" =>
             /\ indexFile # NoIndex
             /\ promise'[a] = Rejected("FaissStore.load")
             /\ ~isInitialized'
             /\ UNCHANGED <<vectorStore, chatHandler, indexFile>>
      /\ vectorStore' # vectorStore /\ vectorStore'.kind \in {"built", "empty"}
           => indexFile = NoIndex
      /\ vectorStore' # vectorStore /\ indexFile # NoIndex
           => vectorStore'.kind = "loaded" /\ vectorStore'.n = indexFile
      /\ indexFile' # indexFile => indexFile = NoIndex ]_vars

\* the load of an existing index failed: the attempt was rejected, the
\* index file is still there and the service holds no store
C21_Witness ==
  /\ indexFile # NoIndex
  /\ vectorStore = NullStore
  /\ \E a \in Attempts : promise[a] = Rejected("FaissStore.load")

\* the entries loadDocumentsFromDirectory has to load among the first n: a
\* .txt or .md extension in any case, and readable
Loadable(n) ==
  { i \in 1..n : /\ dir.files[i].ext \in {".txt", ".TXT", ".md", ".MD"}
                 /\ dir.files[i].readable }

\* C22: loadDocumentsFromDirectory throws only when the directory cannot be
\* read; when it can, every readable .txt/.md entry of the listing seen so
\* far has been loaded exactly once, in listing order, whatever entries
\* before it could not be read, and the call returns all of them
C22_UnreadableFileSkipped ==
  /\ loading.pc = "thrown" <=> (loading # NotLoading /\ ~dir.readable)
  /\ loading.pc \in {"loop", "returned"} =>
       /\ { loading.documents[k] : k \in 1..Len(loading.documents) }
            = Loadable(loading.i)
       /\ \A k, l \in 1..Len(loading.documents) :
            k < l => loading.documents[k] < loading.documents[l]
       /\ loading.warnings + Len(loading.documents) <= loading.i
  /\ loading.pc = "returned" => loading.i = Len(dir.files)

\* the first entry could not be read and a later one was loaded
C22_Witness ==
  /\ loading.pc = "returned"
  /\ loading.warnings >= 1
  /\ Len(dir.files) >= 2
  /\ dir.files[1].ext = ".txt" /\ ~dir.files[1].readable
  /\ loading.documents = <<2>>

\* a generation call of request r is in flight on the chat session:
\* completePrompt of a stream or prompt of a one-shot answer has not settled
Generating(r) ==
  \/ req[r].kind = "chat" /\ req[r].producer = "running"
  \/ req[r].kind \in {"answer", "cli"} /\ req[r].pc = "generate"

\* C23: at no time are generation calls of two requests in flight on the
\* one chat session of the shared ChatLlamaCpp instance
C23_GenerationSerialized ==
  \A r1, r2 \in Requests :
    Generating(r1) /\ Generating(r2)
      /\ req[r1].handler.llm = req[r2].handler.llm
      => r1 = r2

\* the stream of request r has ended the way its producer did, with every
\* pushed fragment yielded
Ended(r) ==
  /\ req[r].pc = "done"
  /\ req[r].chunkQueue = <<>>
  /\ req[r].yielded = req[r].produced
  /\ req[r].events[Len(req[r].events)].type =
       IF req[r].streamingError = "" THEN "done" ELSE "error"

\* C24: a stream whose producer has resolved or rejected ends: again and
\* again the state is one in which every stream whose completion was
\* signalled has yielded all its fragments and has ended, normally if no
\* error was recorded and with the failure otherwise
C24_AdapterTerminates ==
  []<>(\A r \in 1..MaxClients : req[r].isComplete => Ended(r))

\* a stream ended with the failure of its producer after one fragment
C24_Witness ==
  \E r \in Requests :
    /\ req[r].isComplete /\ Ended(r)
    /\ req[r].streamingError # ""
    /\ Len(req[r].yielded) = 1

\* C25: nothing is retried by the service itself: an initialization
\* attempt starts only in a step in which a request calls initialize() and
\* is the attempt that request then awaits; the step in which an attempt
\* fails starts none; a caller of a failed attempt goes from its wait
\* straight to its end, still tied to that attempt; and a request that has
\* ended is never run again
C25_NoAutomaticRetry ==
  [][ /\ \A a \in Attempts :
           promise[a].state = "none" /\ promise'[a].state # "none" =>
             /\ promise'[a].state = "pending"
             /\ \A b \in Attempts : promise[b].state # "pending"
             /\ \E r \in Requests :
                  CallsInitialize(r) /\ req'[r].att = a
      /\ \A r \in Requests :
           /\ AttemptFailed(r) /\ req'[r] # req[r] =>
                req'[r].pc = "done" /\ req'[r].att = req[r].att
           /\ req[r].pc = "done" => req'[r] = req[r] ]_vars

\* an attempt failed, its caller was told and has ended, and nothing runs:
\* no attempt is pending and none was started after the failed one
C25_Witness ==
  /\ initializationPromise = 0 /\ ~isInitialized
  /\ PendingAttempts = {}
  /\ Cardinality(Started) = 1
  /\ \E r \in Requests : AttemptFailed(r) /\ req[r].pc = "done"

\* the steps of the branch taken when faiss.index does not exist
BuildSteps == {"loadDocuments", "fromDocuments", "save", "initializeVectorStore"}
Building == { a \in Attempts : task[a].pc \in BuildSteps }

\* C26: the build of the store runs inside the one attempt in flight: at
\* most one attempt is in a build step, it is the pending attempt held in
\* initializationPromise, however many callers wait on it; an attempt
\* enters the build only from the end of the model load and only when no
\* index file exists, goes through load, embed and save in that order and
\* never enters a step twice; and in the step that makes the service Ready
\* with a store built from documents, the index file holds that store
C26_BuildOnceThenPersist ==
  /\ [](/\ Cardinality(Building) <= 1
        /\ \A a \in Building :
             a = initializationPromise /\ promise[a].state = "pending"
        /\ isInitialized /\ vectorStore.kind = "built" =>
             vectorStore.n >= 1 /\ indexFile = vectorStore.n)
  /\ [][ \A a \in Attempts :
           task'[a].pc # task[a].pc =>
             /\ task'[a].pc = "loadDocuments" =>
                  task[a].pc = "loaded" /\ indexFile = NoIndex
             /\ task'[a].pc \in {"fromDocuments", "initializeVectorStore"} =>
                  task[a].pc = "loadDocuments"
             /\ task'[a].pc = "save" => task[a].pc = "fromDocuments"
             /\ task[a].pc = "save" /\ task'[a].pc = "returned" =>
                  indexFile' = vectorStore'.n /\ isInitialized' ]_vars

\* two callers waited on the attempt that built the store from documents,
\* saved it and made the service Ready
C26_Witness ==
  /\ isInitialized /\ vectorStore.kind = "built"
  /\ indexFile = vectorStore.n
  /\ \E r1, r2 \in Requests :
       /\ r1 # r2 /\ Waited(r1) /\ Waited(r2)
       /\ req[r1].att = vectorStore.embeddings
       /\ req[r2].att = vectorStore.embeddings

\* the steps of an attempt that work on the chunk store
StoreSteps == {"loadIndex", "loadDocuments", "fromDocuments", "save",
               "initializeVectorStore"}

\* C27: within one attempt the Generator model is loaded, then the
\* Embedder, then the chunk store is loaded or built, then the chat handler
\* is created and the service becomes Ready: the adapter exists only with
\* model and context loaded, an attempt works on the store only after its
\* adapter exists and the embedding model of its Embedder is loaded, the
\* handler exists only with the store it was created from, and the service
\* is Ready only with all of these done
C27_StepsInOrder ==
  /\ llm # 0 => model /\ context
  /\ \A a \in Attempts :
       task[a].pc \in StoreSteps => llm = a /\ a \in pipeline
  /\ chatHandler # NullHandler =>
       vectorStore # NullStore /\ chatHandler.vectorStore = vectorStore
  /\ isInitialized =>
       /\ model /\ context /\ llm # 0
       /\ vectorStore # NullStore
       /\ vectorStore.embeddings \in pipeline
       /\ chatHandler = [vectorStore |-> vectorStore, llm |-> llm]

\* C27, as far as the code goes: the same order with the construction of
\* the Embedder object in place of the load of its model (the object is
\* created in the step that creates the adapter)
C27_ConstructionOrder ==
  /\ llm # 0 => model /\ context
  /\ \A a \in Attempts : task[a].pc \in StoreSteps => llm = a
  /\ chatHandler # NullHandler =>
       vectorStore # NullStore /\ chatHandler.vectorStore = vectorStore
  /\ isInitialized =>
       /\ model /\ context /\ llm # 0
       /\ vectorStore # NullStore
       /\ chatHandler = [vectorStore |-> vectorStore, llm |-> llm]

\* the consumer loop of request r takes a turn in this step
ConsumerTurn(r) ==
  /\ req[r].kind = "chat" /\ req[r].pc = "consume"
  /\ req'[r].pc # req[r].pc \/ req'[r].yielded # req[r].yielded

\* the producer of chat stream r enqueues a fragment in this step
Enqueues(r) ==
  req[r].kind = "chat" /\ req'[r].produced # req[r].produced

\* C28: a turn of the consumer loop that finds the queue non-empty removes
\* its head and yields it, and goes on without sleeping; the loop goes to
\* sleep only from a turn that found the queue empty and completion not
\* signalled; and the producer is never held up by the consumer: as long as
\* it runs it can enqueue, wherever the consumer is and whatever is queued,
\* and its enqueue appends to the queue and leaves the consumer where it is
C28_ConsumerNeverBlocksProducer ==
  /\ [][ \A r \in 1..MaxClients :
           /\ ConsumerTurn(r) /\ req[r].chunkQueue # <<>> =>
                /\ req'[r].yielded = Append(req[r].yielded, Head(req[r].chunkQueue))
                /\ req'[r].chunkQueue = Tail(req[r].chunkQueue)
                /\ req'[r].pc = "consume"
           /\ req'[r].pc = "sleep" /\ req[r].pc # "sleep" =>
                /\ req[r].pc = "consume"
                /\ req[r].chunkQueue = <<>>
                /\ ~req[r].isComplete
           /\ Enqueues(r) =>
                /\ req'[r].chunkQueue =
                     Append(req[r].chunkQueue, req'[r].produced[Len(req'[r].produced)])
                /\ req'[r].pc = req[r].pc
                /\ req'[r].yielded = req[r].yielded ]_vars
  /\ [](\A r \in 1..MaxClients :
          req[r].kind = "chat" /\ req[r].producer = "running"
            /\ Len(req[r].produced) < MaxTokens
            => ENABLED OnTextChunk(r))

\* the consumer yielded a fragment, found the queue empty and went to
\* sleep, and the producer enqueued the next fragment meanwhile
C28_Witness ==
  \E r \in Requests :
    /\ req[r].pc = "sleep"
    /\ Len(req[r].yielded) >= 1
    /\ Len(req[r].chunkQueue) >= 1

\* request r is a call of generateResponse (a blank line typed at the
\* command line is skipped without a call)
Answer(r) ==
  req[r].kind \in {"answer", "cli"} /\ req[r].result # "skipped"

\* C29: a call of generateResponse searches once and invokes the Generator
\* at most once, never before its retrieval returned: while the Generator
\* runs, the call holds the retrieved documents and the prompt assembled
\* from them; a call that resolved invoked it exactly once and returns the
\* whole text generated; a call that rejected returns no text at all, with
\* no invocation when the retrieval failed and one when the generation did
C29_AnswerOnceAndWhole ==
  \A r \in Requests :
    Answer(r) =>
      /\ req[r].searches = 1
      /\ req[r].generations <= 1
      /\ req[r].pc = "retrieve" => req[r].generations = 0
      /\ req[r].pc = "generate" =>
           /\ req[r].generations = 1
           /\ req[r].docs = SimilaritySearch(req[r].handler.vectorStore, req[r].k)
           /\ req[r].messages = Prompt(req[r], req[r].docs)
           /\ req[r].response = <<>>
      /\ req[r].pc = "done" /\ req[r].result = "resolved" =>
           /\ req[r].generations = 1
           /\ req[r].response = Flatten(req[r].produced)
      /\ req[r].pc = "done" /\ req[r].result = "rejected" =>
           /\ req[r].response = <<>>
           /\ req[r].generations =
                IF req[r].message = "similaritySearch" THEN 0 ELSE 1

\* one call returned a text of two fragments generated from retrieved
\* documents
C29_Witness ==
  \E r \in Requests :
    /\ Answer(r) /\ req[r].result = "resolved"
    /\ Len(req[r].produced) >= 2
    /\ req[r].docs # <<>>
    /\ req[r].response = Flatten(req[r].produced)

\* the shared singletons and the lifecycle fields of RagService
Singletons == <<llm, vectorStore, chatHandler>>
Lifecycle == <<isInitialized, initializationPromise>>

\* C30: llm, vectorStore, chatHandler and isInitialized change only in a
\* step of the attempt held in initializationPromise, which is no step of
\* any request; initializationPromise is set only in the step in which a
\* request calls initialize() and then awaits that attempt, and is cleared
\* only in the step in which the attempt throws; every other step of a
\* request (a health check, a chat request past its call of initialize(),
\* its retrieval and its stream) and every step taken while the service is
\* Ready leaves all five unchanged
C30_OnlyInitializationWrites ==
  [][ /\ Singletons' # Singletons \/ isInitialized' # isInitialized =>
           /\ initializationPromise # 0
           /\ task'[initializationPromise].pc # task[initializationPromise].pc
           /\ req' = req
      /\ initializationPromise' # initializationPromise =>
           \/ /\ initializationPromise = 0
              /\ \E r \in Requests :
                   CallsInitialize(r) /\ req'[r].att = initializationPromise'
              /\ UNCHANGED <<Singletons, isInitialized>>
           \/ /\ initializationPromise' = 0
              /\ task'[initializationPromise].pc = "thrown"
              /\ req' = req
      /\ IsReady => UNCHANGED <<Singletons, Lifecycle>>
      /\ \A r \in Requests :
           req'[r] # req[r] /\ ~CallsInitialize(r) =>
             UNCHANGED <<Singletons, Lifecycle>> ]_vars

\* a chat request was streamed to its end on the Ready system, which still
\* holds the adapter, the store and the handler its initialization set
C30_Witness ==
  /\ IsReady
  /\ initializationPromise # 0
  /\ chatHandler = [vectorStore |-> vectorStore, llm |-> llm]
  /\ \E r \in Requests :
       /\ req[r].kind = "chat" /\ req[r].pc = "done"
       /\ req[r].handler = chatHandler
       /\ req[r].yielded # <<>>
       /\ req[r].events[Len(req[r].events)] = DoneEvent

\* the role prefixes of the prompt
RolePrefixes == {"System: ", "User: ", "Assistant: "}

\* C32: the prompt _formatMessages returns is the fold of its messages: it
\* ends with the cue Assistant:, its role prefixes are those of the
\* messages, one for each and in their order (System: for a system, User:
\* for a user and Assistant: for an assistant message), the texts between
\* them are the contents of the messages in order, each followed by the two
\* newlines and nothing else; and the call changes neither its messages nor
\* any state of the adapter and the service
C32_FormatIsPureFold ==
  /\ [](formatting.pc = "returned" =>
          LET p == formatting.prompt
              ms == formatting.messages
              IsPrefix(x) == x \in RolePrefixes
              IsText(x) == x \notin RolePrefixes \cup {"\n", "Assistant:"}
              IsNewline(x) == x = "\n"
          IN  /\ p = FormatMessages(ms)
              /\ p[Len(p)] = "Assistant:"
              /\ SelectSeq(p, IsPrefix) =
                   [j \in 1..Len(ms) |->
                      CASE ms[j].class = "SystemMessage" -> "System: "
                        [] ms[j].class = "HumanMessage" -> "User: "
                        [] ms[j].class = "AIMessage" -> "Assistant: "]
              /\ SelectSeq(p, IsText) =
                   Flatten([j \in 1..Len(ms) |-> ms[j].content])
              /\ Len(SelectSeq(p, IsNewline)) = 2 * Len(ms)
              /\ Len(p) = Len(SelectSeq(p, IsPrefix)) + Len(SelectSeq(p, IsText))
                            + 2 * Len(ms) + 1)
  /\ [][ /\ formatting'.messages = formatting.messages
         /\ formatting' # formatting =>
              UNCHANGED <<svcVars, loaderVars, promise, task, req>> ]_vars

\* a system, a user and an assistant message were formatted in one call
C32_Witness ==
  /\ formatting.pc = "returned"
  /\ Len(formatting.messages) = 3
  /\ formatting.messages[1].class = "SystemMessage"
  /\ formatting.messages[2].class = "HumanMessage"
  /\ formatting.messages[3] = [class |-> "AIMessage", content |-> <<"a", "b">>]

\* the _doInitialize invocations in flight: started and neither returned
\* nor thrown
InFlight == { a \in Attempts : task[a].pc \notin {"none", "returned", "thrown"} }

\* C33: in every reachable state, isInitialized implies that
\* initializationPromise is set, a null initializationPromise implies that
\* isInitialized is false, at most one _doInitialize invocation is in
\* flight, and one is in flight exactly when the promise is set and the
\* service is not initialized: it is then the invocation the promise names
C33_LifecycleFieldsConsistent ==
  /\ isInitialized => initializationPromise # 0
  /\ initializationPromise = 0 => ~isInitialized
  /\ Cardinality(InFlight) <= 1
  /\ InFlight =
       IF initializationPromise # 0 /\ ~isInitialized
         THEN {initializationPromise} ELSE {}
  /\ \A a \in InFlight : promise[a].state = "pending"
  /\ isInitialized => promise[initializationPromise].state = "resolved"

\* a second invocation is in flight after the first one failed, with the
\* adapter of the failed one still assigned
C33_Witness ==
  /\ ~isInitialized
  /\ initializationPromise = 2
  /\ InFlight = {2}
  /\ promise[1].state = "rejected"
  /\ llm = 1

\* the errors of the steps of an attempt that come after this.llm was set
ErrorsAfterLlm == {"FaissStore.load", "loadAndProcessDocuments",
                   "FaissStore.fromDocuments", "saveVectorStore"}

\* C34: a chat request holds a handler only of a system an attempt made
\* Ready: the handler is the service's chat handler, it wraps the adapter
\* and the store of an attempt that resolved, and the attempt the request
\* awaited, if any, resolved; a request whose attempt failed holds no
\* handler and got the error of that attempt as its only event; no request
\* ever holds handles that a failed attempt left assigned
C34_NoPartialHandler ==
  \A r \in Requests :
    req[r].kind = "chat" =>
      /\ req[r].handler # NullHandler =>
           /\ isInitialized
           /\ req[r].handler = chatHandler
           /\ req[r].handler = [vectorStore |-> vectorStore, llm |-> llm]
           /\ promise[req[r].handler.llm].state = "resolved"
           /\ req[r].handler.vectorStore.embeddings = req[r].handler.llm
           /\ req[r].att # 0 => promise[req[r].att].state = "resolved"
      /\ AttemptFailed(r) =>
           /\ req[r].handler = NullHandler
           /\ req[r].pc = "done" =>
                req[r].events = <<ErrorEvent(promise[req[r].att].error)>>

\* an attempt failed after it had assigned the adapter, its caller got the
\* error and no handler, and a later request holds the handler of the
\* attempt that succeeded
C34_Witness ==
  \E r1, r2 \in Requests :
    /\ req[r1].kind = "chat" /\ AttemptFailed(r1) /\ req[r1].pc = "done"
    /\ promise[req[r1].att].error \in ErrorsAfterLlm
    /\ req[r1].handler = NullHandler
    /\ req[r2].kind = "chat" /\ req[r2].handler = chatHandler
    /\ req[r2].handler.llm > req[r1].att

\* chat stream r was started: _streamResponseChunks was entered
Streaming(r) == req[r].kind = "chat" /\ req[r].producer # "idle"

\* C35: streams do not mix: at any time the fragments a stream has yielded
\* followed by those in its queue are exactly the fragments its own
\* producer pushed, in order; a stream ends with done only if its own
\* producer resolved and with the streaming error only if its own producer
\* rejected; and every step of a producer or a consumer changes the queue,
\* the flags, the events and the position of its own stream only
C35_StreamsDoNotMix ==
  /\ [](\A r \in 1..(MaxClients + 1) :
          Streaming(r) =>
            /\ req[r].yielded \o req[r].chunkQueue = req[r].produced
            /\ req[r].isComplete = (req[r].producer # "running")
            /\ (req[r].streamingError # "") = (req[r].producer = "rejected")
            /\ req[r].pc = "done" =>
                 /\ req[r].producer # "running"
                 /\ req[r].events[Len(req[r].events)] =
                      IF req[r].producer = "resolved" THEN DoneEvent
                      ELSE ErrorEvent("Streaming error: " \o req[r].streamingError))
  /\ [][ \A r, s \in 1..(MaxClients + 1) :
           req'[r] # req[r] /\ s # r => req'[s] = req[s] ]_vars

\* one stream has failed and ended with its error while another, started
\* before the failure was delivered, is still generating and has yielded
C35_Witness ==
  \E r1, r2 \in Requests :
    /\ r1 # r2
    /\ Streaming(r1) /\ req[r1].pc = "done" /\ req[r1].producer = "rejected"
    /\ Streaming(r2) /\ req[r2].producer = "running"
    /\ req[r2].pc \in {"consume", "sleep"}
    /\ Len(req[r2].yielded) >= 1

\* the loads of the pipeline of embeddings instance e that completed: the
\* embedding of the documents of the build, and the embedQuery calls that
\* found no pipeline and whose search returned
BuildLoads(e) ==
  IF vectorStore.kind = "built" /\ vectorStore.embeddings = e THEN 1 ELSE 0

QueryLoads(e) ==
  { r \in Requests :
      /\ req[r].loads /\ req[r].generations > 0
      /\ req[r].handler.vectorStore.embeddings = e }

\* C36: the pipeline of one XenovaEmbeddings instance is loaded at most
\* once, whatever number of concurrent calls reach _initializePipeline
C36_PipelineLoadedOnce ==
  \A e \in Attempts : BuildLoads(e) + Cardinality(QueryLoads(e)) <= 1

\* a health check is answered in this step
HealthArrives(r) == req[r].kind = "none" /\ req'[r].kind = "health"

\* C37: the report of a health check has initialized = ready: the check
\* answers {true, true} and healthy when the flag is set and adapter and
\* store are assigned, and {false, false} and unhealthy in every other
\* state, those in which an initialization is in flight and has already
\* assigned the adapter or the store included
C37_HealthFieldsAgree ==
  /\ [](/\ HealthReport.initialized = HealthReport.ready
        /\ InFlight # {} => HealthReport = ReportFalse
        /\ \A r \in Requests :
             req[r].kind = "health" =>
               /\ req[r].report.initialized = req[r].report.ready
               /\ (req[r].result = "healthy") = req[r].report.ready)
  /\ [][ \A r \in Requests :
           HealthArrives(r) =>
             /\ req'[r].report =
                  IF isInitialized /\ llm # 0 /\ vectorStore # NullStore
                    THEN ReportTrue ELSE ReportFalse
             /\ InFlight # {} => req'[r].report = ReportFalse ]_vars

\* while the first initialization is in flight and has assigned the
\* adapter and the store, a health check that arrived after its caller
\* has answered {false, false}
C37_Witness ==
  /\ InFlight = {1}
  /\ llm # 0 /\ vectorStore # NullStore
  /\ \E r0, r \in Requests :
       /\ r0 < r
       /\ Waiting(r0) /\ req[r0].att = 1
       /\ req[r].kind = "health" /\ req[r].report = ReportFalse

\* attempt a enters step pc of loadModel() in this step
Enters(a, pc) == task[a].pc # pc /\ task'[a].pc = pc

\* cleanup() released a handle in this step
Released ==
  \/ llama /\ ~llama'
  \/ model /\ ~model'
  \/ context /\ ~context'

\* C38: loadModel() loads each of the runtime, the model and the context
\* only when it is null: a call asks for the runtime only when there is
\* none, calls llama.loadModel (counted by modelLoads) only when no model
\* is held, creates a context only when none is held, and loads nothing
\* when all three are held, so a retry after a failed context creation
\* goes straight to the context; a step of cleanup() leaves all three
\* null, and the next call of loadModel() then starts with the runtime
C38_LoadModelIdempotent ==
  [][ /\ \A a \in Attempts :
           /\ Enters(a, "getLlama") => ~llama
           /\ Enters(a, "loadModel") =>
                ~model /\ llama' /\ modelLoads' = modelLoads + 1
           /\ Enters(a, "createContext") => ~context /\ model'
           /\ Enters(a, "loaded") /\ task[a].pc = "import" =>
                /\ llama /\ model /\ context
                /\ UNCHANGED <<llama, model, context, modelLoads>>
           /\ task[a].pc = "import" /\ task'[a].pc # "import" =>
                /\ ~llama => task'[a].pc = "getLlama"
                /\ llama /\ model /\ ~context => task'[a].pc = "createContext"
      /\ modelLoads' # modelLoads =>
           \E a \in Attempts : Enters(a, "loadModel")
      /\ Released => ~llama' /\ ~model' /\ ~context' ]_vars

\* the model was loaded, cleanup() released it, and a retry loaded it again
C38_Witness ==
  /\ modelLoads = 2
  /\ llama /\ model
  /\ promise[1].state = "rejected"
  /\ InFlight = {2}

====
